---- MODULE Spec2Model ----
(***************************************************************************)
(* Model of the multi-session shell multiplexer of src/bash_server.py:     *)
(* _BashSession (one persistent /bin/bash subprocess, sentinel protocol),  *)
(* BashTool (the session map and its asyncio.Lock) and the /bash/ws        *)
(* adapter.                                                                *)
(*                                                                         *)
(* The server is a single asyncio event loop.  One action of this module   *)
(* is one uninterrupted run of a coroutine between two points where it     *)
(* really suspends (waiting for the lock, for the subprocess to be         *)
(* created, for bytes on stdout, for a queue item), or one event of the    *)
(* environment (the subprocess writes bytes / exits, the loop reaps it, a  *)
(* timer fires, the client disconnects).                                   *)
(*                                                                         *)
(* stdout is a sequence of tokens: "o" is some bytes of command output     *)
(* (any amount, none of them part of the sentinel) and "S" is the sentinel *)
(* line '<<exit>>' echoed by the wrapper of a command.                     *)
(***************************************************************************)
EXTENDS Integers, Sequences, FiniteSets, TLC

\* ---------------------------------------------------------------- bounds
NumTasks == 2      \* concurrent POST /bash request coroutines
MaxId    == 2      \* largest session id the model lets the map hold
MaxObj   == 3      \* _BashSession objects (hence subprocesses) ever constructed
MaxFrames == 1     \* text frames the websocket client sends
MaxSoloReq == 3    \* /bash requests of the client that sends one at a time
MaxWsReq == 1      \* /bash requests accepted beside the websocket connection
MaxReq   == 2      \* requests and websocket frames accepted in one behaviour
MaxBuf   == 2      \* tokens StreamReader._buffer of stdout holds at once (the last
                   \* place is kept for a sentinel)
MaxInq   == 2      \* wrapped commands a shell holds unfinished on its stdin
MaxAcc   == 2      \* chunks the limit-overrun fallback of run() accumulates
MaxQ     == 2      \* items the queue of stream_command holds at once
MaxLen   == 4      \* characters a file of the file editor holds
MaxEdits == 4      \* /file requests of the client that edits one file
MaxCalls == 3      \* /file requests of the clients that use every command
MaxUndoCalls == 7  \* /file requests of the client that edits and undoes
ChunkSize == 2     \* bytes one read of the streaming reader asks for (256)
MaxOut   == 4      \* bytes a streamed command writes to stdout

MinId == 0         \* ids a client may send in `session`: MinId..MaxId
Tasks == 1..NumTasks
WsId  == NumTasks + 1            \* the websocket connection's coroutine
Ids   == MinId..MaxId
Objs  == 1..MaxObj
NoObj == 0
NoId  == -1                      \* `session` / `check_session` is None
Cmds  == {"c1", "c2", "w"}       \* command texts clients submit
ClientIds == 1..MaxId            \* ids the clients of the main specification send
NoCmd == "none"                  \* `command` is None

VARIABLES
    sessions,   \* BashTool._sessions: id -> object, NoObj where the id is no key
    lock,       \* BashTool._sessions_lock: 0 free, else the coroutine holding it
    nobj,       \* _BashSession objects constructed so far
    obj,        \* the fields of every _BashSession and the state of its subprocess
    task,       \* the POST /bash coroutines (BashTool.__call__)
    ws,         \* the /bash/ws coroutine (bash_websocket + stream_command)
    nreq,       \* requests accepted so far (/bash and /file)
    fs,         \* the filesystem FileTool works on: node -> what is there
    file_history,   \* FileTool._file_history: Path -> the snapshots of its edits
    fcall,      \* the last call of FileTool: command, paths, the error returned
    calc,       \* the last application of a function that has no state of its own
    strm        \* one stream_command, byte by byte: pipe, reader tasks, queue

\* the variables of the file editor and of the stateless functions
fvars == <<fs, file_history, fcall, calc, strm>>

vars == <<sessions, lock, nobj, obj, task, ws, nreq, fs, file_history, fcall, calc, strm>>

\* ------------------------------------------------------------- sentinel
HasSentinel(s) == \E i \in DOMAIN s : s[i] = "S"

\* str.replace(sentinel, "")
StripSentinel(s) == SelectSeq(s, LAMBDA x : x # "S")

\* index of the first sentinel of s (s holds one)
FirstSentinel(s) == CHOOSE i \in DOMAIN s : s[i] = "S" /\ \A j \in 1..(i-1) : s[j] # "S"

\* ------------------------------------------------------------ _BashSession
\* _BashSession.__init__; proc is the subprocess: "none" (no process yet),
\* "run", "term" (terminate() sent, not yet dead), "dead" (exited: its pipes
\* are closed and stdout is at EOF, returncode still None), "exit" (reaped:
\* returncode set).  buf / ebuf are stdout._buffer / stderr._buffer, waiter is
\* stdout's StreamReader._waiter, inq the wrapped commands the shell has not
\* finished, wr the commands written to stdin since a sentinel was last seen.
FreshSession ==
    [started |-> FALSE, busy |-> FALSE, last |-> "", pout |-> <<>>, perr |-> "",
     proc |-> "none", buf |-> <<>>, ebuf |-> "", waiter |-> 0, inq |-> 0, wr |-> 0]

Exited(ob) == ob.proc \in {"dead", "exit"}

\* a completion check that leaves the session as it finds it
ProbeBlind(ob) == ob

\* _BashSession.check_command_completion
Probe(ob) ==
    IF ~ob.busy THEN ob
    ELSE IF ob.proc = "none" THEN [ob EXCEPT !.busy = FALSE]
    ELSE IF ob.buf # <<>>
         THEN IF HasSentinel(ob.buf)
              THEN [ob EXCEPT !.pout = ob.buf, !.busy = FALSE, !.wr = 0]
              ELSE [ob EXCEPT !.pout = ob.buf]
         ELSE ob

\* a stop that resets the flag and leaves the subprocess running
StopFlagOnly(ob) == IF ~ob.started THEN ob ELSE [ob EXCEPT !.busy = FALSE]

\* _BashSession.stop
Stop(ob) ==
    IF ~ob.started THEN ob
    ELSE [ob EXCEPT !.proc = IF @ = "run" THEN "term" ELSE @, !.busy = FALSE]

\* _BashSession.start, when create_subprocess_shell succeeds
Started(ob) ==
    IF ob.started THEN ob ELSE [ob EXCEPT !.started = TRUE, !.proc = "run"]

\* ----------------------------------------------------------- ToolResult
\* A ToolResult / CLIResult as the dispatcher returns it.  sys and err are the
\* kind of text the `system` and `error` fields hold, out the stdout tokens of
\* `output`, name the command text a message quotes, cli whether the object
\* is a CLIResult, created / auto whether __call__ prefixed the system text
\* with "Created new session" / "was automatically restarted"; on is not a
\* field of the object, it records what ended the wait of the run() behind it.
Res(sys, err, out, cli) ==
    [sys |-> sys, err |-> err, out |-> out, cli |-> cli, name |-> "",
     created |-> FALSE, auto |-> FALSE, on |-> ""]

\* the result R, with the event that ended run()'s wait for the sentinel:
\* "sentinel", "timeout", "eof" or "error"
On(R, e) == [R EXCEPT !.on = e]

NoRes == Res("-", "-", <<>>, FALSE)

\* an exception that leaves _BashSession.run (ToolError, UnboundLocalError, ...)
Raised == Res("raise", "-", <<>>, FALSE)

\* A stderr text is "" (empty), "d" (lines that mention dbus), "e" (other
\* lines) or "p" (lines among which is the phrase "Stream reading error").
ErrTexts == {"d", "e", "p"}

\* the concatenation of two stderr texts, by what the result contains
Cat(a, b) ==
    IF a = "p" \/ b = "p" THEN "p"
    ELSE IF a = "e" \/ b = "e" THEN "e"
    ELSE IF a = "d" \/ b = "d" THEN "d" ELSE ""

\* _filter_error_output drops the lines that mention dbus
ErrOf(e) == IF e = "d" THEN "" ELSE e

\* The `error` texts that contain "0 bytes read on a total of undefined
\* expected bytes" or "Stream reading error": run() puts the text of a stream
\* error into `system`, so only what the command wrote to stderr can match.
StreamTextErrors == {"p"}

\* BashTool.__call__, the condition of the auto-recovery
Trigger(R) ==
    \/ R.sys = "MustRestart"
    \/ R.err \in StreamTextErrors
    \/ R.sys = "CompletedDespite"

\* --------------------------------------------------------------- run()
\* _BashSession.run from its first line to the first suspension in readuntil:
\* the new fields of the session and how the call goes on.
RunEnter(ob0, cmd, t) ==
    IF ~ob0.started THEN [ob |-> ob0, how |-> "NotStarted"]
    ELSE LET ob == Probe(ob0) IN
      IF ob.proc \in {"none", "exit"} THEN [ob |-> ob, how |-> "MustRestart"]
      ELSE IF ob.busy THEN [ob |-> ob, how |-> "Busy"]
      ELSE LET ob1 == [ob EXCEPT !.pout = <<>>, !.perr = "", !.last = cmd,
                                 !.busy = TRUE, !.buf = <<>>, !.ebuf = ""] IN
        IF ob.proc = "dead"
        THEN [ob |-> [ob1 EXCEPT !.busy = FALSE], how |-> "FailedSend"]
        ELSE LET ob2 == [ob1 EXCEPT !.inq = IF ob.proc = "run" THEN @ + 1 ELSE @,
                                    !.wr = @ + 1] IN
          IF ob2.waiter # 0
          THEN [ob |-> [ob2 EXCEPT !.busy = FALSE], how |-> "Unexpected"]
          ELSE [ob |-> [ob2 EXCEPT !.waiter = t], how |-> "Wait"]

\* the ToolResult of a run() that returned before it suspended
EnterResult(e) ==
    CASE e.how = "NotStarted"  -> Raised
      [] e.how = "MustRestart" -> Res("MustRestart", "ExitCode", <<>>, FALSE)
      [] e.how = "Busy"        -> Res("RunBusy", "", <<>>, FALSE)
      [] e.how = "FailedSend"  -> Res("MayNeedRestart", "FailedSend", <<>>, FALSE)
      [] e.how = "Unexpected"  -> Res("MayNeedRestart", "Unexpected", <<>>, FALSE)
      [] OTHER                 -> NoRes

\* ------------------------------------------------------------- requests
IdleTask ==
    [pc |-> "idle", kind |-> "-", cmd |-> NoCmd, sess |-> NoId, sid |-> NoId,
     o |-> NoObj, old |-> NoObj, created |-> FALSE, auto |-> FALSE,
     woken |-> FALSE, acc |-> <<>>, writes |-> 0, res |-> NoRes]

\* BashTool.__call__, what it returns for the result R of run()
Decorate(tk, R) ==
    IF R.sys = "raise"
    THEN On(Res("", IF tk.auto THEN "FailedAutoRestart" ELSE "ErrorExecuting", <<>>, FALSE),
            R.on)
    ELSE IF tk.auto THEN [R EXCEPT !.auto = TRUE]
    ELSE IF tk.created /\ R.cli THEN [R EXCEPT !.created = TRUE]
    ELSE R

\* a caller that takes the recovery for every result that asks for it
RecoversAgain(tk, R) == R.sys # "raise" /\ Trigger(R)

\* BashTool.__call__: the recovery is taken for the result R of the first
\* run() of a call; the result of the second run() is returned as it is
Recovers(tk, R) == ~tk.auto /\ R.sys # "raise" /\ Trigger(R)

\* BashTool.__call__ after run() on object o (whose fields are now obn)
\* returned R to the coroutine t (tk its locals), lk being the lock's holder:
\* return the result, or, for a first run whose result asks for it, begin the
\* auto-recovery: take the lock (suspend when it is held), stop the session,
\* put a new one in the map and suspend in its start().
Conclude(t, tk, o, obn, R, lk) ==
    IF Recovers(tk, R)
    THEN IF lk = 0
         THEN /\ nobj < MaxObj
              /\ obj' = [obj EXCEPT ![o] = Stop(obn), ![nobj + 1] = FreshSession]
              /\ sessions' = [sessions EXCEPT ![tk.sid] = nobj + 1]
              /\ nobj' = nobj + 1
              /\ lock' = t
              /\ task' = [task EXCEPT ![t] = [tk EXCEPT !.pc = "astarting", !.old = o,
                                              !.o = nobj + 1, !.auto = TRUE, !.res = R]]
         ELSE /\ obj' = [obj EXCEPT ![o] = obn]
              /\ task' = [task EXCEPT ![t] = [tk EXCEPT !.pc = "alock", !.res = R]]
              /\ lock' = lk
              /\ UNCHANGED <<sessions, nobj>>
    ELSE /\ obj' = [obj EXCEPT ![o] = obn]
         /\ task' = [task EXCEPT ![t] = [tk EXCEPT !.pc = "done", !.res = Decorate(tk, R)]]
         /\ lock' = lk
         /\ UNCHANGED <<sessions, nobj>>

\* MAX_COMMAND_LENGTH of validate_command_length
MAX_COMMAND_LENGTH == 100000

\* a command text of more than MAX_COMMAND_LENGTH bytes
LongCmd == "long"

\* len(command.encode('utf-8'))
ByteLength(cmd) == IF cmd = LongCmd THEN MAX_COMMAND_LENGTH + 1 ELSE 2

\* validate_command_length raises ToolError
TooLong(cmd) == ByteLength(cmd) > MAX_COMMAND_LENGTH

\* validate_command_length(command), then run(command) called on object o,
\* whose fields are ob0; the re-run of a recovery is not validated again
CallRun(t, tk, o, ob0, lk) ==
    IF ~tk.auto /\ TooLong(tk.cmd) THEN Conclude(t, tk, o, ob0, On(Raised, "length"), lk)
    ELSE
    LET e == RunEnter(ob0, tk.cmd, t)
        tw == [tk EXCEPT !.writes = IF e.how \in {"Wait", "Unexpected"} THEN @ + 1 ELSE @] IN
    /\ e.ob.inq <= MaxInq
    /\ IF e.how = "Wait"
       THEN /\ obj' = [obj EXCEPT ![o] = e.ob]
            /\ task' = [task EXCEPT ![t] = [tw EXCEPT !.pc = "wait", !.woken = FALSE]]
            /\ lock' = lk
            /\ UNCHANGED <<sessions, nobj>>
       ELSE Conclude(t, tw, o, e.ob, EnterResult(e), lk)

\* a busy answer that names the command it was sent with
BusyNamesSent(ob, cmd) == [Res("SessionBusy", "", <<>>, FALSE) EXCEPT !.name = cmd]

\* the busy answer of BashTool.__call__ to a command cmd for the session ob
BusyResult(ob, cmd) == [Res("SessionBusy", "", <<>>, FALSE) EXCEPT !.name = ob.last]

\* BashTool.__call__ from `current_session = self._sessions[session]` on, the
\* lock released: probe, the busy answer, run() up to its first suspension.
\* ob0 are the fields of the session object o.
AfterLock(t, tk, o, ob0) ==
    LET ob == Probe(ob0) IN
    IF tk.cmd = NoCmd
    THEN /\ obj' = [obj EXCEPT ![o] = ob]
         /\ task' = [task EXCEPT ![t] = [tk EXCEPT !.pc = "done", !.res =
                       IF tk.created THEN Res("Created", "", <<>>, FALSE)
                       ELSE Res("", "NoCommand", <<>>, FALSE)]]
         /\ lock' = 0
         /\ UNCHANGED <<sessions, nobj>>
    ELSE IF ob.busy
    THEN /\ obj' = [obj EXCEPT ![o] = ob]
         /\ task' = [task EXCEPT ![t] = [tk EXCEPT !.pc = "done",
                                                   !.res = BusyResult(ob, tk.cmd)]]
         /\ lock' = 0
         /\ UNCHANGED <<sessions, nobj>>
    ELSE CallRun(t, tk, o, ob, 0)

\* a selection loop that passes over every id present in the map
RECURSIVE SelectAbsent(_)
SelectAbsent(i) ==
    IF i > MaxId THEN i
    ELSE IF sessions[i] = NoObj THEN i
    ELSE SelectAbsent(i + 1)

\* the id-selection loop of BashTool.__call__ (an id past MaxId is past the model)
RECURSIVE SelectFrom(_)
SelectFrom(i) ==
    IF i > MaxId THEN i
    ELSE IF sessions[i] = NoObj THEN i
    ELSE IF ~obj[sessions[i]].busy THEN i
    ELSE SelectFrom(i + 1)

\* the session id BashTool.__call__ works on
Target(cmd, sess) ==
    IF sess = NoId /\ cmd # NoCmd THEN SelectFrom(1)
    ELSE IF sess # NoId THEN sess ELSE 1

\* The text of a command decides nothing but what messages quote: coroutine
\* 1 submits "c1", coroutine 2 "c2", the websocket client "w".
CmdOf(t) == IF t = 1 THEN "c1" ELSE IF t = WsId THEN "w" ELSE "c2"

\* The request coroutines are interchangeable: a new request is served by the
\* idle coroutine of lowest number.
Free(t) ==
    /\ task[t].pc = "idle"
    /\ \A u \in Tasks : u < t => task[u].pc # "idle"

NewTask(kind, cmd, sess, sid) ==
    [IdleTask EXCEPT !.kind = kind, !.cmd = cmd, !.sess = sess, !.sid = sid]

\* execute, the target id not in the map: under the lock, construct the
\* session, put it in the map and suspend in start()
ExecCreate(t, cmd, sess) ==
    /\ Free(t) /\ lock = 0
    /\ LET sid == Target(cmd, sess) IN
       /\ sid \in Ids
       /\ sessions[sid] = NoObj
       /\ nobj < MaxObj
       /\ sessions' = [sessions EXCEPT ![sid] = nobj + 1]
       /\ obj' = [obj EXCEPT ![nobj + 1] = FreshSession]
       /\ task' = [task EXCEPT ![t] = [NewTask("execute", cmd, sess, sid) EXCEPT
                                        !.pc = "starting", !.o = nobj + 1]]
    /\ nobj' = nobj + 1
    /\ lock' = t
    /\ nreq' = nreq + 1
    /\ UNCHANGED fvars
    /\ UNCHANGED ws

\* start() of the created session returned: release the lock and go on
ExecStarted(t) ==
    /\ task[t].pc = "starting"
    /\ AfterLock(t, [task[t] EXCEPT !.created = TRUE], task[t].o, Started(obj[task[t].o]))
    /\ UNCHANGED <<ws, nreq, fvars>>

\* start() raised: "Failed to create session"; the object stays in the map
ExecStartFailed(t) ==
    /\ task[t].pc = "starting"
    /\ task' = [task EXCEPT ![t].pc = "done", ![t].res = Res("", "FailedCreate", <<>>, FALSE)]
    /\ lock' = 0
    /\ UNCHANGED <<sessions, nobj, obj, ws, nreq, fvars>>

\* execute, the target id in the map: nothing suspends before run() waits
ExecExisting(t, cmd, sess) ==
    /\ Free(t) /\ lock = 0
    /\ LET sid == Target(cmd, sess) IN
       /\ sid \in Ids
       /\ sessions[sid] # NoObj
       /\ AfterLock(t, [NewTask("execute", cmd, sess, sid) EXCEPT !.o = sessions[sid]],
                    sessions[sid], obj[sessions[sid]])
    /\ nreq' = nreq + 1
    /\ UNCHANGED fvars
    /\ UNCHANGED ws

\* restart: under the lock stop the session at the id (if any), put a new one
\* in the map and suspend in its start()
RestartBegin(t, sess) ==
    /\ Free(t) /\ lock = 0
    /\ nobj < MaxObj
    /\ LET sid == IF sess # NoId THEN sess ELSE 1
           old == sessions[sid] IN
       /\ obj' = [x \in Objs |-> IF x = old THEN Stop(obj[x])
                                 ELSE IF x = nobj + 1 THEN FreshSession ELSE obj[x]]
       /\ sessions' = [sessions EXCEPT ![sid] = nobj + 1]
       /\ task' = [task EXCEPT ![t] = [NewTask("restart", NoCmd, sess, sid) EXCEPT
                                        !.pc = "rstarting", !.o = nobj + 1, !.old = old]]
    /\ nobj' = nobj + 1
    /\ lock' = t
    /\ nreq' = nreq + 1
    /\ UNCHANGED fvars
    /\ UNCHANGED ws

RestartStarted(t) ==
    /\ task[t].pc = "rstarting"
    /\ obj' = [obj EXCEPT ![task[t].o] = Started(@)]
    /\ task' = [task EXCEPT ![t].pc = "done", ![t].res = Res("Restarted", "", <<>>, FALSE)]
    /\ lock' = 0
    /\ UNCHANGED <<sessions, nobj, ws, nreq, fvars>>

RestartFailed(t) ==
    /\ task[t].pc = "rstarting"
    /\ task' = [task EXCEPT ![t].pc = "done", ![t].res = Res("", "FailedRestart", <<>>, FALSE)]
    /\ lock' = 0
    /\ UNCHANGED <<sessions, nobj, obj, ws, nreq, fvars>>

\* the auto-recovery of a coroutine that found the lock held gets the lock
RecoverLock(t) ==
    /\ task[t].pc = "alock" /\ lock = 0
    /\ Conclude(t, task[t], task[t].o, obj[task[t].o], task[t].res, 0)
    /\ UNCHANGED <<ws, nreq, fvars>>

\* a recovery that runs the command again inside its `async with`
RecoverStartedLocked(t) ==
    /\ task[t].pc = "astarting"
    /\ CallRun(t, task[t], task[t].o, Started(obj[task[t].o]), t)
    /\ UNCHANGED <<ws, nreq, fvars>>

\* start() of the replacement returned: release the lock, run the command again
RecoverStarted(t) ==
    /\ task[t].pc = "astarting"
    /\ CallRun(t, task[t], task[t].o, Started(obj[task[t].o]), 0)
    /\ UNCHANGED <<ws, nreq, fvars>>

RecoverFailed(t) ==
    /\ task[t].pc = "astarting"
    /\ task' = [task EXCEPT ![t].pc = "done",
                            ![t].res = Res("", "FailedAutoRestart", <<>>, FALSE)]
    /\ lock' = 0
    /\ UNCHANGED <<sessions, nobj, obj, ws, nreq, fvars>>

\* list_sessions: probes every session of the map; nothing suspends
ListSessions(t) ==
    /\ Free(t)
    /\ obj' = [x \in Objs |-> IF \E i \in Ids : sessions[i] = x THEN Probe(obj[x]) ELSE obj[x]]
    /\ task' = [task EXCEPT ![t] = [NewTask("list", NoCmd, NoId, NoId) EXCEPT !.pc = "done",
                  !.res = IF \A i \in Ids : sessions[i] = NoObj
                          THEN Res("NoActive", "", <<>>, FALSE)
                          ELSE Res("", "", <<>>, FALSE)]]
    /\ nreq' = nreq + 1
    /\ UNCHANGED fvars
    /\ UNCHANGED <<sessions, lock, nobj, ws>>

\* _BashSession.get_current_output: the new fields and the CLIResult
GetCurrentOutput(ob0) ==
    IF ~ob0.started
    THEN [ob |-> ob0, res |-> Res("NotStarted", "NotStarted", <<>>, TRUE)]
    ELSE LET ob == Probe(ob0) IN
      IF ~ob.busy THEN [ob |-> ob, res |-> Res("Idle", "", <<>>, TRUE)]
      ELSE IF ob.proc = "none"
      THEN [ob |-> [ob EXCEPT !.busy = FALSE], res |-> Res("Terminated", "Terminated", <<>>, TRUE)]
      ELSE LET output == ob.pout \o ob.buf
               error  == ErrOf(Cat(ob.perr, ob.ebuf)) IN
        IF HasSentinel(output)
        THEN [ob |-> [ob EXCEPT !.busy = FALSE, !.wr = 0],
              res |-> Res("Completed", error, StripSentinel(output), TRUE)]
        ELSE [ob |-> ob, res |-> Res("StillRunning", error, output, TRUE)]

\* check_session: nothing suspends
CheckSession(t, id) ==
    /\ Free(t)
    /\ LET o == sessions[id]
           tk == NewTask("check", NoCmd, id, id) IN
       IF o = NoObj
       THEN /\ task' = [task EXCEPT ![t] = [tk EXCEPT !.pc = "done",
                                            !.res = Res("", "NotFound", <<>>, FALSE)]]
            /\ obj' = obj
       ELSE LET ob == Probe(obj[o]) IN
            IF ~ob.busy
            THEN /\ task' = [task EXCEPT ![t] = [tk EXCEPT !.pc = "done", !.o = o, !.res =
                               [Res("NoCommandRunning", "", <<>>, FALSE) EXCEPT !.name = ob.last]]]
                 /\ obj' = [obj EXCEPT ![o] = ob]
            ELSE LET g == GetCurrentOutput(ob) IN
                 /\ task' = [task EXCEPT ![t] = [tk EXCEPT !.pc = "done", !.o = o, !.res = g.res]]
                 /\ obj' = [obj EXCEPT ![o] = g.ob]
    /\ nreq' = nreq + 1
    /\ UNCHANGED fvars
    /\ UNCHANGED <<sessions, lock, nobj, ws>>

\* A POST /bash body: the fields of BashRequest (timeout left out); NoCmd and
\* NoId stand for None.
BashRequest(command, session, restart, list_sessions, check_session) ==
    [command |-> command, session |-> session, restart |-> restart,
     list_sessions |-> list_sessions, check_session |-> check_session]

\* BashTool.__call__: the branch a request takes
Dispatch(req) ==
    IF req.list_sessions THEN "list"
    ELSE IF req.check_session # NoId THEN "check"
    ELSE IF req.restart THEN "restart"
    ELSE "execute"

\* bash_action: coroutine t accepts the request req
BashAction(t, req) ==
    LET branch == Dispatch(req) IN
    \/ branch = "list" /\ ListSessions(t)
    \/ branch = "check" /\ CheckSession(t, req.check_session)
    \/ branch = "restart" /\ RestartBegin(t, req.session)
    \/ branch = "execute" /\ ExecCreate(t, req.command, req.session)
    \/ branch = "execute" /\ ExecExisting(t, req.command, req.session)

\* the response is sent; the coroutine is free for the next request
Return(t) ==
    /\ task[t].pc = "done"
    /\ task' = [task EXCEPT ![t] = IdleTask]
    /\ UNCHANGED <<sessions, lock, nobj, obj, ws, nreq, fvars>>

\* ---------------------------------------------------- the subprocess
\* StreamReader.feed_data / feed_eof: the new fields obn of object o are in
\* place and the coroutine registered as _waiter is woken (it runs later)
Wake(o, obn) ==
    LET w == obj[o].waiter IN
    /\ obj' = [obj EXCEPT ![o] = [obn EXCEPT !.waiter = 0]]
    /\ task' = IF w \in Tasks THEN [task EXCEPT ![w].woken = TRUE] ELSE task
    /\ ws' = IF w = WsId THEN [ws EXCEPT !.woken = TRUE] ELSE ws

\* an object the map, a request coroutine or the connection still refers to
Live(o) ==
    \/ \E i \in Ids : sessions[i] = o
    \/ \E t \in Tasks : task[t].o = o \/ task[t].old = o
    \/ ws.o = o /\ ws.pc # "over"

\* the running command writes bytes to stdout
ProcEmit(o) ==
    /\ Live(o)
    /\ obj[o].proc = "run" /\ obj[o].inq > 0 /\ Len(obj[o].buf) < MaxBuf - 1
    /\ Wake(o, [obj[o] EXCEPT !.buf = Append(@, "o")])
    /\ UNCHANGED <<sessions, lock, nobj, nreq, fvars>>

\* the running command ends and the wrapper echoes the sentinel
ProcFinish(o) ==
    /\ Live(o)
    /\ obj[o].proc = "run" /\ obj[o].inq > 0 /\ Len(obj[o].buf) < MaxBuf
    /\ Wake(o, [obj[o] EXCEPT !.buf = Append(@, "S"), !.inq = @ - 1])
    /\ UNCHANGED <<sessions, lock, nobj, nreq, fvars>>

\* the running command writes bytes to stderr
ProcStderr(o, e) ==
    /\ Live(o)
    /\ obj[o].proc = "run" /\ obj[o].inq > 0 /\ obj[o].ebuf = ""
    /\ obj' = [obj EXCEPT ![o].ebuf = e]
    /\ UNCHANGED <<sessions, lock, nobj, task, ws, nreq, fvars>>

\* the shell exits (the running command was `exit` or killed its shell, or
\* terminate() took effect): its pipes close and stdout is at EOF
ProcExit(o) ==
    /\ Live(o)
    /\ obj[o].proc = "term" \/ (obj[o].proc = "run" /\ obj[o].inq > 0)
    /\ Wake(o, [obj[o] EXCEPT !.proc = "dead", !.inq = 0])
    /\ UNCHANGED <<sessions, lock, nobj, nreq, fvars>>

\* the event loop reaps the child: returncode is set
ProcReap(o) ==
    /\ Live(o)
    /\ obj[o].proc = "dead"
    /\ obj' = [obj EXCEPT ![o].proc = "exit"]
    /\ UNCHANGED <<sessions, lock, nobj, task, ws, nreq, fvars>>

\* ------------------------------------------- run(), after it suspended
\* readuntil() found the sentinel: run() returns the command's output
RunSentinel(t) ==
    /\ task[t].pc = "wait" /\ task[t].woken
    /\ LET o == task[t].o
           ob == obj[o] IN
       /\ HasSentinel(ob.buf)
       /\ LET data == SubSeq(ob.buf, 1, FirstSentinel(ob.buf))
              out  == StripSentinel(data) IN
          Conclude(t, task[t], o,
                   [ob EXCEPT !.waiter = 0, !.pout = out, !.perr = ob.ebuf, !.busy = FALSE,
                              !.wr = 0, !.buf = <<>>, !.ebuf = ""],
                   On(Res("", ErrOf(ob.ebuf), out, TRUE), "sentinel"), lock)
    /\ UNCHANGED <<ws, nreq, fvars>>

\* readuntil() was woken without a sentinel and stdout is not at EOF: it
\* waits again (_wait_for_data's `finally` has reset _waiter meanwhile)
RunWaitAgain(t) ==
    /\ task[t].pc = "wait" /\ task[t].woken
    /\ LET ob == obj[task[t].o] IN
       /\ ~HasSentinel(ob.buf) /\ ~Exited(ob)
       /\ obj' = [obj EXCEPT ![task[t].o].waiter = t]
    /\ task' = [task EXCEPT ![t].woken = FALSE]
    /\ UNCHANGED <<sessions, lock, nobj, ws, nreq, fvars>>

\* readuntil() raised IncompleteReadError: stdout is at EOF without a sentinel
RunEof(t) ==
    /\ task[t].pc = "wait" /\ task[t].woken
    /\ LET o == task[t].o
           ob == obj[o]
           output == ob.pout
           error == ErrOf(Cat(ob.perr, ob.ebuf)) IN
       /\ ~HasSentinel(ob.buf) /\ Exited(ob)
       /\ IF HasSentinel(output)
          THEN Conclude(t, task[t], o,
                        [ob EXCEPT !.waiter = 0, !.buf = <<>>, !.busy = FALSE, !.wr = 0],
                        On(Res("CompletedDespite", error, StripSentinel(output), TRUE), "eof"),
                        lock)
          ELSE Conclude(t, task[t], o,
                        [ob EXCEPT !.waiter = 0, !.buf = <<>>, !.busy = FALSE],
                        On(Res("StreamError", error, output, FALSE), "eof"), lock)
    /\ UNCHANGED <<ws, nreq, fvars>>

\* a timeout path that marks the session idle
RunTimeoutIdle(t) ==
    /\ task[t].pc = "wait"
    /\ LET o == task[t].o
           ob == obj[o] IN
       Conclude(t, task[t], o, [ob EXCEPT !.waiter = 0, !.busy = FALSE],
                On(Res("TimedOut", ErrOf(ob.perr), ob.pout, FALSE), "timeout"), lock)
    /\ UNCHANGED <<ws, nreq, fvars>>

\* wait_for's timeout: readuntil() is cancelled, busy stays as it is
RunTimeout(t) ==
    /\ task[t].pc = "wait"
    /\ LET o == task[t].o
           ob == obj[o] IN
       Conclude(t, task[t], o, [ob EXCEPT !.waiter = 0],
                On(Res("TimedOut", ErrOf(ob.perr), ob.pout, FALSE), "timeout"), lock)
    /\ UNCHANGED <<ws, nreq, fvars>>

\* readuntil() raised LimitOverrunError: the bytes before the sentinel (or all
\* bytes, when there is none yet) exceed the stream limit; run() falls back
\* to reading chunks.  How many bytes an "o" stands for is not modelled, so
\* any buffer that starts with output may be over the limit.
RunOverrun(t) ==
    /\ task[t].pc = "wait" /\ task[t].woken
    /\ obj[task[t].o].buf # <<>> /\ Head(obj[task[t].o].buf) = "o"
    /\ obj' = [obj EXCEPT ![task[t].o].waiter = 0]
    /\ task' = [task EXCEPT ![t].pc = "chunks", ![t].acc = <<>>]
    /\ UNCHANGED <<sessions, lock, nobj, ws, nreq, fvars>>

\* the fallback is at a read(8192) that does not have to wait: in its loop
\* ("chunks"), or woken in read() ("cwait"), whose `finally` resets _waiter
CanRead(t) == task[t].pc = "chunks" \/ (task[t].pc = "cwait" /\ task[t].woken)

Resumed(t, ob) == IF task[t].pc = "cwait" THEN [ob EXCEPT !.waiter = 0] ELSE ob

\* the fallback's stdout.read(8192) returns a chunk without the sentinel
ChunkData(t) ==
    /\ CanRead(t)
    /\ LET ob == Resumed(t, obj[task[t].o]) IN
       /\ ob.buf # <<>> /\ Head(ob.buf) = "o"
       /\ Len(task[t].acc) < MaxAcc
       /\ obj' = [obj EXCEPT ![task[t].o] = [ob EXCEPT !.buf = Tail(ob.buf)]]
    /\ task' = [task EXCEPT ![t].acc = Append(@, "o"), ![t].pc = "chunks"]
    /\ UNCHANGED <<sessions, lock, nobj, ws, nreq, fvars>>

\* the fallback reads the chunk that holds the sentinel: run() returns the output
ChunkSentinel(t) ==
    /\ CanRead(t)
    /\ LET o == task[t].o
           ob == Resumed(t, obj[o]) IN
       /\ ob.buf # <<>> /\ Head(ob.buf) = "S"
       /\ Conclude(t, task[t], o,
                   [ob EXCEPT !.pout = task[t].acc, !.perr = ob.ebuf, !.busy = FALSE,
                              !.wr = 0, !.buf = <<>>, !.ebuf = ""],
                   On(Res("", ErrOf(ob.ebuf), task[t].acc, TRUE), "sentinel"), lock)
    /\ UNCHANGED <<ws, nreq, fvars>>

\* the fallback's read() finds the buffer empty and waits for bytes; read()
\* raises RuntimeError when another coroutine is registered as the waiter,
\* and the exception leaves run()
ChunkWait(t) ==
    /\ CanRead(t)
    /\ LET o == task[t].o
           ob == Resumed(t, obj[o]) IN
       /\ ob.buf = <<>> /\ ~Exited(ob)
       /\ IF ob.waiter = 0
          THEN /\ obj' = [obj EXCEPT ![o] = [ob EXCEPT !.waiter = t]]
               /\ task' = [task EXCEPT ![t].woken = FALSE, ![t].pc = "cwait"]
               /\ UNCHANGED <<sessions, lock, nobj>>
          ELSE Conclude(t, task[t], o, ob, On(Raised, "error"), lock)
    /\ UNCHANGED <<ws, nreq, fvars>>

\* the fallback's read() returns b"" at EOF: the loop breaks with `output`
\* never assigned, and line 492 raises UnboundLocalError out of run()
ChunkEof(t) ==
    /\ CanRead(t)
    /\ LET o == task[t].o
           ob == Resumed(t, obj[o]) IN
       /\ ob.buf = <<>> /\ Exited(ob)
       /\ Conclude(t, task[t], o, ob, On(Raised, "eof"), lock)
    /\ UNCHANGED <<ws, nreq, fvars>>

\* the fallback's wait_for(read) times out while it waits for bytes: run()
\* returns what it has accumulated as a CLIResult, busy as it is
ChunkReadTimeout(t) ==
    /\ task[t].pc = "cwait"
    /\ LET o == task[t].o
           ob == obj[o] IN
       Conclude(t, task[t], o,
                [ob EXCEPT !.waiter = 0, !.pout = task[t].acc, !.perr = ob.ebuf,
                           !.buf = <<>>, !.ebuf = ""],
                On(Res("", ErrOf(ob.ebuf), task[t].acc, TRUE), "timeout"), lock)
    /\ UNCHANGED <<ws, nreq, fvars>>

\* the fallback finds remaining_time <= 0 at the head of its loop, after a
\* read: it breaks with `output` never assigned, and line 492 raises
\* UnboundLocalError out of run()
ChunkDeadline(t) ==
    /\ task[t].pc = "chunks" /\ task[t].acc # <<>>
    /\ Conclude(t, task[t], task[t].o, obj[task[t].o], On(Raised, "timeout"), lock)
    /\ UNCHANGED <<ws, nreq, fvars>>

\* ------------------------------------------------ /bash/ws, stream_command
\* The connection's coroutine.  pc: "closed" (no connection yet), "starting"
\* (in start(), the lock held), "idle" (in receive_text), "stream" (in
\* `async for`, suspended in queue.get), "closing" (stopped its session, waits
\* for the lock), "over".  rd is the stdout _reader task: "none", "run",
\* "wait" (suspended in read; woken tells whether it was woken), "done".
\* gen is the stream_command generator: "none", "open", "abandoned" (the
\* handler left `async for` by an exception; its `finally` has not run yet),
\* "closed".  q is the asyncio.Queue: items [end, data], end for None.  n
\* counts the text frames received.
NoWs ==
    [pc |-> "closed", sid |-> NoId, o |-> NoObj, conn |-> FALSE, woken |-> FALSE,
     rd |-> "none", gen |-> "none", q |-> <<>>, n |-> 0]

Item(data) == [end |-> FALSE, data |-> data]
EndItem == [end |-> TRUE, data |-> <<>>]

\* max(bash_tool._sessions.keys(), default=0) + 1
RECURSIVE MaxKey(_)
MaxKey(i) == IF i < MinId THEN 0 ELSE IF sessions[i] # NoObj THEN i ELSE MaxKey(i - 1)

WsNextId == MaxKey(MaxId) + 1

\* accept: under the lock, construct the session and suspend in its start()
WsAccept ==
    /\ ws.pc = "closed" /\ lock = 0 /\ nobj < MaxObj
    /\ WsNextId \in Ids
    /\ ws' = [NoWs EXCEPT !.pc = "starting", !.sid = WsNextId, !.o = nobj + 1, !.conn = TRUE]
    /\ obj' = [obj EXCEPT ![nobj + 1] = FreshSession]
    /\ nobj' = nobj + 1
    /\ lock' = WsId
    /\ UNCHANGED <<sessions, task, nreq, fvars>>

\* start() returned: the session is registered and the lock released
WsStarted ==
    /\ ws.pc = "starting"
    /\ obj' = [obj EXCEPT ![ws.o] = Started(@)]
    /\ sessions' = [sessions EXCEPT ![ws.sid] = ws.o]
    /\ ws' = [ws EXCEPT !.pc = "idle"]
    /\ lock' = 0
    /\ UNCHANGED <<nobj, task, nreq, fvars>>

\* start() raised: the exception ends the handler, nothing was registered
WsStartFailed ==
    /\ ws.pc = "starting"
    /\ ws' = [ws EXCEPT !.pc = "over"]
    /\ lock' = 0
    /\ UNCHANGED <<sessions, nobj, obj, task, nreq, fvars>>

\* a text frame arrives: stream_command runs to its first queue.get().  A busy
\* session raises ToolError (an ERROR frame is sent); a write to a subprocess
\* that has exited raises out of drain() with busy already set.
WsCommand(cmd) ==
    /\ ws.pc = "idle" /\ ws.conn /\ ws.n < MaxFrames
    /\ LET o == ws.o
           ob == Probe(obj[o]) IN
       IF ob.busy
       THEN /\ obj' = [obj EXCEPT ![o] = ob]
            /\ ws' = [ws EXCEPT !.n = @ + 1]
       ELSE LET ob1 == [ob EXCEPT !.pout = <<>>, !.perr = "", !.last = cmd,
                                  !.busy = TRUE, !.buf = <<>>, !.ebuf = ""] IN
            IF Exited(ob)
            THEN /\ obj' = [obj EXCEPT ![o] = ob1]
                 /\ ws' = [ws EXCEPT !.n = @ + 1]
            ELSE /\ ob1.inq < MaxInq
                 /\ obj' = [obj EXCEPT ![o] = [ob1 EXCEPT
                               !.inq = IF ob.proc = "run" THEN @ + 1 ELSE @, !.wr = @ + 1]]
                 /\ ws' = [ws EXCEPT !.pc = "stream", !.rd = "run", !.gen = "open",
                                     !.q = <<>>, !.woken = FALSE, !.n = @ + 1]
    /\ UNCHANGED <<sessions, lock, nobj, task, nreq, fvars>>

RdCanRun == ws.rd = "run" \/ (ws.rd = "wait" /\ ws.woken)

RdResumed(ob) == IF ws.rd = "wait" THEN [ob EXCEPT !.waiter = 0] ELSE ob

\* _reader(stdout): read(256) returns bytes; with a sentinel among them the
\* bytes before it and None are queued and the reader ends
WsRead ==
    /\ RdCanRun /\ ws.gen \in {"open", "abandoned"}
    /\ LET ob == RdResumed(obj[ws.o]) IN
       /\ ob.buf # <<>>
       /\ Len(ws.q) < MaxQ
       /\ obj' = [obj EXCEPT ![ws.o] = [ob EXCEPT !.buf = <<>>]]
       /\ ws' = IF HasSentinel(ob.buf)
                THEN LET before == SubSeq(ob.buf, 1, FirstSentinel(ob.buf) - 1) IN
                     [ws EXCEPT !.rd = "done", !.woken = FALSE,
                                !.q = (IF before # <<>> THEN Append(@, Item(before)) ELSE @)
                                      \o <<EndItem>>]
                ELSE [ws EXCEPT !.rd = "run", !.woken = FALSE, !.q = Append(@, Item(ob.buf))]
    /\ UNCHANGED <<sessions, lock, nobj, task, nreq, fvars>>

\* _reader(stdout): read(256) finds nothing buffered and waits (RuntimeError
\* ends the reader when another coroutine is the waiter)
WsReadWait ==
    /\ RdCanRun /\ ws.gen \in {"open", "abandoned"}
    /\ LET ob == RdResumed(obj[ws.o]) IN
       /\ ob.buf = <<>> /\ ~Exited(ob)
       /\ IF ob.waiter = 0
          THEN /\ obj' = [obj EXCEPT ![ws.o] = [ob EXCEPT !.waiter = WsId]]
               /\ ws' = [ws EXCEPT !.rd = "wait", !.woken = FALSE]
          ELSE /\ obj' = [obj EXCEPT ![ws.o] = ob]
               /\ ws' = [ws EXCEPT !.rd = "done", !.woken = FALSE]
    /\ UNCHANGED <<sessions, lock, nobj, task, nreq, fvars>>

\* _reader(stdout): read(256) returns b"" at EOF and the reader ends; nothing
\* is queued
WsReadEof ==
    /\ RdCanRun /\ ws.gen \in {"open", "abandoned"}
    /\ LET ob == RdResumed(obj[ws.o]) IN
       /\ ob.buf = <<>> /\ Exited(ob)
       /\ obj' = [obj EXCEPT ![ws.o] = ob]
    /\ ws' = [ws EXCEPT !.rd = "done", !.woken = FALSE]
    /\ UNCHANGED <<sessions, lock, nobj, task, nreq, fvars>>

\* _reader(stderr) takes the bytes of stderr and queues what the filter keeps
WsReadStderr ==
    /\ ws.gen \in {"open", "abandoned"} /\ obj[ws.o].ebuf # ""
    /\ LET kept == ErrOf(obj[ws.o].ebuf) IN
       /\ kept # "" => Len(ws.q) < MaxQ
       /\ ws' = IF kept # "" THEN [ws EXCEPT !.q = Append(@, Item(<<kept>>))] ELSE ws
    /\ obj' = [obj EXCEPT ![ws.o].ebuf = ""]
    /\ UNCHANGED <<sessions, lock, nobj, task, nreq, fvars>>

\* the `finally` of stream_command: the readers are cancelled (a reader
\* suspended in read() resets _waiter), busy is cleared
GenClosed(ob) ==
    [ob EXCEPT !.busy = FALSE, !.waiter = IF ws.rd = "wait" THEN 0 ELSE @]

\* queue.get() returns None: the generator ends through its `finally`
WsEnd ==
    /\ ws.pc = "stream" /\ ws.q # <<>> /\ Head(ws.q).end
    /\ obj' = [obj EXCEPT ![ws.o] = GenClosed(@)]
    /\ ws' = [ws EXCEPT !.pc = "idle", !.gen = "closed", !.rd = "done", !.woken = FALSE,
                        !.q = <<>>]
    /\ UNCHANGED <<sessions, lock, nobj, task, nreq, fvars>>

\* queue.get() returns a chunk, it is yielded and sent to the client
WsSend ==
    /\ ws.pc = "stream" /\ ws.q # <<>> /\ ~Head(ws.q).end /\ ws.conn
    /\ ws' = [ws EXCEPT !.q = Tail(@)]
    /\ UNCHANGED <<sessions, lock, nobj, obj, task, nreq, fvars>>

\* the client goes away
WsDisconnect ==
    /\ ws.pc \in {"idle", "stream"} /\ ws.conn
    /\ ws' = [ws EXCEPT !.conn = FALSE]
    /\ UNCHANGED <<sessions, lock, nobj, obj, task, nreq, fvars>>

\* the handler's `finally`: stop() the session, then pop it under the lock
\* (suspending when the lock is held)
WsFinally(w) ==
    /\ obj' = [obj EXCEPT ![ws.o] = Stop(@)]
    /\ IF lock = 0
       THEN /\ sessions' = [sessions EXCEPT ![ws.sid] = NoObj]
            /\ ws' = [w EXCEPT !.pc = "over"]
       ELSE /\ sessions' = sessions
            /\ ws' = [w EXCEPT !.pc = "closing"]
    /\ UNCHANGED <<lock, nobj, task, nreq, fvars>>

\* receive_text raises WebSocketDisconnect
WsRecvClosed ==
    /\ ws.pc = "idle" /\ ~ws.conn
    /\ WsFinally(ws)
    
\* send_text of a chunk raises: the handler leaves `async for` (the generator
\* stays suspended at its yield) and then its loop
WsSendFailed ==
    /\ ws.pc = "stream" /\ ws.q # <<>> /\ ~Head(ws.q).end /\ ~ws.conn
    /\ WsFinally([ws EXCEPT !.gen = "abandoned", !.q = Tail(@)])

\* the event loop finalizes the abandoned generator: its `finally` runs
WsGenClose ==
    /\ ws.gen = "abandoned"
    /\ obj' = [obj EXCEPT ![ws.o] = GenClosed(@)]
    /\ ws' = [ws EXCEPT !.gen = "closed", !.rd = "done", !.woken = FALSE]
    /\ UNCHANGED <<sessions, lock, nobj, task, nreq, fvars>>

\* a handler that pops its id without the lock
WsPopUnlocked ==
    /\ ws.pc = "closing"
    /\ sessions' = [sessions EXCEPT ![ws.sid] = NoObj]
    /\ ws' = [ws EXCEPT !.pc = "over"]
    /\ UNCHANGED <<lock, nobj, obj, task, nreq, fvars>>

\* the handler gets the lock and pops its id from the map
WsPop ==
    /\ ws.pc = "closing" /\ lock = 0
    /\ sessions' = [sessions EXCEPT ![ws.sid] = NoObj]
    /\ ws' = [ws EXCEPT !.pc = "over"]
    /\ UNCHANGED <<lock, nobj, obj, task, nreq, fvars>>

\* ---------------------------------------------------------------- FileTool
\* A text is a sequence of characters; CR and LF are "\r" and "\n".
CR == "CR"
LF == "LF"

\* A path is absolute or relative and has segments, a segment being the
\* characters of a name; Up is the segment "..".
Up == <<".", ".">>
Wn == <<"w">>
W2n == <<"w", "2">>
En == <<"e">>
An == <<"a">>
Dn == <<"d">>
Abs(segs) == [abs |-> TRUE, segs |-> segs]
Rel(segs) == [abs |-> FALSE, segs |-> segs]

\* WORKSPACE_DIR, the base_path of file_tool: the directory /w
Base == Abs(<<Wn>>)

\* str(path): the segments joined by "/"
RECURSIVE Joined(_)
Joined(segs) ==
    IF segs = <<>> THEN <<>> ELSE <<"/">> \o Head(segs) \o Joined(Tail(segs))

PathStr(p) ==
    IF p.abs THEN (IF p.segs = <<>> THEN <<"/">> ELSE Joined(p.segs))
    ELSE IF p.segs = <<>> THEN <<".">> ELSE Tail(Joined(p.segs))

\* str.startswith
StartsWith(s, pre) == Len(pre) <= Len(s) /\ SubSeq(s, 1, Len(pre)) = pre

\* the segments that remain when every ".." has taken its parent away (what
\* Path.resolve() does to a path, and the kernel to the path of a system
\* call, no symbolic link being on the way)
RECURSIVE Normal(_, _)
Normal(done, rest) ==
    IF rest = <<>> THEN done
    ELSE IF Head(rest) = Up
         THEN Normal(IF done = <<>> THEN <<>> ELSE SubSeq(done, 1, Len(done) - 1), Tail(rest))
         ELSE Normal(Append(done, Head(rest)), Tail(rest))

\* FileTool._validate_path: an absolute path is taken as it is written, a
\* relative one is joined to the base and resolved; then the textual prefix
\* test.  ok is FALSE for "Invalid path: Path is outside the allowed base directory".
ValidatePath(path) ==
    LET full == IF path.abs THEN path
                ELSE Abs(Normal(<<>>, Base.segs \o path.segs)) IN
    [ok |-> StartsWith(PathStr(full), PathStr(Base)), full |-> full]

\* the node of the filesystem a system call on the Path full works on
Node(full) == Normal(<<>>, full.segs)

\* The nodes the model follows: /w, /w/a, /w/d, /w/d/a and, beside the
\* workspace, /w2 and /w2/a.
Nodes == {<<Wn>>, <<Wn, An>>, <<Wn, Dn>>, <<Wn, Dn, An>>, <<W2n>>, <<W2n, An>>}

NoEntry == [kind |-> "none", data |-> <<>>]
DirEntry == [kind |-> "dir", data |-> <<>>]
FileEntry(data) == [kind |-> "file", data |-> data]

\* the proper ancestors of a node that the model follows, the nodes below it
Ancestors(n) == {SubSeq(n, 1, k) : k \in 1..(Len(n) - 1)}
Under(n) == {m \in Nodes : Len(m) > Len(n) /\ SubSeq(m, 1, Len(n)) = n}

\* Path.mkdir(parents=True, exist_ok=True) of the parent of node n in f
ParentsOk(f, n) == \A m \in Ancestors(n) : f[m].kind # "file"
WithParents(f, n) ==
    [m \in Nodes |-> IF m \in Ancestors(n) /\ f[m].kind = "none" THEN DirEntry ELSE f[m]]

\* the paths the clients send: inside the workspace (relative, absolute), in
\* the sibling directory /w2 by three spellings, and in /e
PA == Rel(<<An>>)
PD == Rel(<<Dn>>)
PDA == Rel(<<Dn, An>>)
AbsA == Abs(<<Wn, An>>)
Sibling == {Rel(<<Up, W2n, An>>), Abs(<<W2n, An>>), Abs(<<Wn, Up, W2n, An>>)}
Outside == {Rel(<<Up, En, An>>), Abs(<<En, An>>)}
AllPaths == {PA, PD, PDA, AbsA} \cup Sibling \cup Outside

\* the paths the clients move and copy from and to
MovePaths == {PA, PDA, Rel(<<Up, W2n, An>>), Abs(<<En, An>>)}

\* the Path objects that can be keys of _file_history
Keys == {ValidatePath(p).full : p \in {q \in AllPaths : ValidatePath(q).ok}}

\* _file_history is a defaultdict(list): a key is absent, or has a list
NoHistory == [has |-> FALSE, snaps |-> <<>>]

\* ------------------------------------------------------------- str, open
\* open(..., 'r') with newline=None: "\r\n" and "\r" are read as "\n"
RECURSIVE ReadText(_)
ReadText(b) ==
    IF b = <<>> THEN <<>>
    ELSE IF Head(b) = CR
         THEN <<LF>> \o ReadText(IF Len(b) > 1 /\ b[2] = LF THEN SubSeq(b, 3, Len(b))
                                 ELSE Tail(b))
         ELSE <<Head(b)>> \o ReadText(Tail(b))

\* open(..., 'w') with newline=None writes "\n" as os.linesep, "\n" on the
\* server's platform: the characters are written as they are
WriteText(s) == s

\* pat is in s at index i
Occurs(s, pat, i) == i + Len(pat) - 1 <= Len(s) /\ SubSeq(s, i, i + Len(pat) - 1) = pat

\* `pat in s`, pat not empty
Contains(s, pat) == \E i \in 1..Len(s) : Occurs(s, pat, i)

\* s.replace(old, new, n): the first n occurrences from the left, none
\* overlapping another; all of them for n = -1
RECURSIVE StrReplace(_, _, _, _)
StrReplace(s, old, new, n) ==
    IF s = <<>> \/ n = 0 THEN s
    ELSE IF Occurs(s, old, 1)
         THEN new \o StrReplace(SubSeq(s, Len(old) + 1, Len(s)), old, new, n - 1)
         ELSE <<Head(s)>> \o StrReplace(Tail(s), old, new, n)

\* s.count(pat)
RECURSIVE StrCount(_, _)
StrCount(s, pat) ==
    IF s = <<>> THEN 0
    ELSE IF Occurs(s, pat, 1) THEN 1 + StrCount(SubSeq(s, Len(pat) + 1, Len(s)), pat)
    ELSE StrCount(Tail(s), pat)

\* s.splitlines(), cur being the line begun
RECURSIVE SplitLines(_, _)
SplitLines(s, cur) ==
    IF s = <<>> THEN (IF cur = <<>> THEN <<>> ELSE <<cur>>)
    ELSE IF Head(s) = LF THEN <<cur>> \o SplitLines(Tail(s), <<>>)
    ELSE IF Head(s) = CR
         THEN <<cur>> \o SplitLines(IF Len(s) > 1 /\ s[2] = LF THEN SubSeq(s, 3, Len(s))
                                    ELSE Tail(s), <<>>)
    ELSE SplitLines(Tail(s), Append(cur, Head(s)))

\* "\n".join(lines)
RECURSIVE JoinLines(_)
JoinLines(lines) ==
    IF lines = <<>> THEN <<>>
    ELSE IF Len(lines) = 1 THEN lines[1]
    ELSE lines[1] \o <<LF>> \o JoinLines(Tail(lines))

\* ------------------------------------------------------ FileTool commands
\* One action is one call of FileTool.__call__, from the request to the
\* ToolResult: the file requests are served one at a time.  err is "" for a
\* result with `output`, else the kind of the error text.
Commands ==
    {"read", "write", "append", "delete", "exists", "list", "mkdir", "rmdir", "move",
     "copy", "view", "create", "replace", "insert", "delete_lines", "undo", "grep"}

\* fcall also keeps the arguments of a replace and, of an edit, the bytes the
\* file held when the command read it; run are those bytes for each of the
\* successful edits made one after the other on a path since its history was
\* empty, undone the successful undos made since.
NoCall ==
    [op |-> "none", path |-> PA, dst |-> PA, old |-> <<>>, new |-> <<>>, all |-> FALSE,
     err |-> "", before |-> <<>>, run |-> <<>>, undone |-> 0]

Call(op, path, dst) == [NoCall EXCEPT !.op = op, !.path = path, !.dst = dst]

\* the edits and undos made in a row on the path of the call, this call
\* among them
EditsInARow(call, err) ==
    IF call.op \in {"replace", "insert", "delete_lines"} /\ err = ""
    THEN [run |-> IF file_history[ValidatePath(call.path).full].snaps = <<>>
                  THEN <<call.before>>
                  ELSE IF /\ fcall.run # <<>> /\ fcall.undone = 0 /\ fcall.err = ""
                          /\ fcall.path = call.path /\ fcall.op # "undo"
                       THEN Append(fcall.run, call.before)
                       ELSE <<>>,
          undone |-> 0]
    ELSE IF call.op = "undo" /\ fcall.run # <<>> /\ fcall.path = call.path
    THEN [run |-> fcall.run, undone |-> fcall.undone + (IF err = "" THEN 1 ELSE 0)]
    ELSE [run |-> <<>>, undone |-> 0]

FileStep(call, err, fsn, hn) ==
    /\ fs' = fsn
    /\ file_history' = hn
    /\ fcall' = [call EXCEPT !.err = err, !.run = EditsInARow(call, err).run,
                             !.undone = EditsInARow(call, err).undone]
    /\ nreq' = nreq + 1
    /\ UNCHANGED <<sessions, lock, nobj, obj, task, ws, calc, strm>>

\* a call that raises ToolError after it has looked its path up in the
\* defaultdict of the histories, which makes the path a key
RejectedMakesKey(call, err) ==
    FileStep(call, err, fs,
             IF ValidatePath(call.path).ok
             THEN [file_history EXCEPT ![ValidatePath(call.path).full].has = TRUE]
             ELSE file_history)

\* the call raises ToolError before it has changed anything
Rejected(call, err) == FileStep(call, err, fs, file_history)

\* _file_history[full_path].append(content), the oldest of three popped
Push(h, k, content) ==
    LET snaps == Append(h[k].snaps, content) IN
    [h EXCEPT ![k] = [has |-> TRUE,
                      snaps |-> IF Len(snaps) > 2 THEN Tail(snaps) ELSE snaps]]

\* FileTool.replace, from the content read to new_content or the error
ReplaceOutcome(content, old_str, new_str, all_occurrences) ==
    IF Contains(content, old_str)
    THEN IF all_occurrences
         THEN [err |-> "", text |-> StrReplace(content, old_str, new_str, -1)]
         ELSE IF StrCount(content, old_str) > 1 THEN [err |-> "Ambiguous", text |-> <<>>]
         ELSE [err |-> "", text |-> StrReplace(content, old_str, new_str, 1)]
    ELSE LET cmp_content == StrReplace(content, <<CR, LF>>, <<LF>>, -1)
             cmp_old == StrReplace(old_str, <<CR, LF>>, <<LF>>, -1)
             norm_new == StrReplace(new_str, <<CR, LF>>, <<LF>>, -1) IN
         IF ~Contains(cmp_content, cmp_old) THEN [err |-> "NotFound", text |-> <<>>]
         ELSE IF ~all_occurrences /\ StrCount(cmp_content, cmp_old) > 1
         THEN [err |-> "Ambiguous", text |-> <<>>]
         ELSE LET norm_new_content ==
                      StrReplace(cmp_content, cmp_old, norm_new,
                                 IF all_occurrences THEN -1 ELSE 1) IN
              [err |-> "",
               text |-> IF Contains(content, <<CR, LF>>)
                        THEN StrReplace(norm_new_content, <<LF>>, <<CR, LF>>, -1)
                        ELSE norm_new_content]

\* FileTool.insert, from the content read to new_content or the error
InsertOutcome(content, line, text) ==
    LET lines == SplitLines(content, <<>>) IN
    IF line < 1 \/ line > Len(lines) + 1 THEN [err |-> "OutOfRange", text |-> <<>>]
    ELSE [err |-> "",
          text |-> JoinLines(SubSeq(lines, 1, line - 1) \o <<text>>
                             \o SubSeq(lines, line, Len(lines)))]

\* FileTool.delete_lines, from the content read to new_content
DeleteLinesOutcome(content, lines) ==
    LET file_lines == SplitLines(content, <<>>)
        kept == {i \in 1..Len(file_lines) : i \notin lines}
        RECURSIVE Keep(_)
        Keep(i) == IF i > Len(file_lines) THEN <<>>
                   ELSE (IF i \in kept THEN <<file_lines[i]>> ELSE <<>>) \o Keep(i + 1) IN
    [err |-> "", text |-> JoinLines(Keep(1))]

\* replace, insert and delete_lines: validate the path, read the file,
\* compute the new content (Outcome), push the content read, write
EditFile(call, Outcome(_)) ==
    LET v == ValidatePath(call.path) IN
    IF ~v.ok THEN Rejected(call, "InvalidPath")
    ELSE LET n == Node(v.full) IN
         /\ n \in Nodes
         /\ IF fs[n].kind # "file" THEN Rejected(call, "NotAFile")
            ELSE LET content == ReadText(fs[n].data)
                     r == Outcome(content)
                     c == [call EXCEPT !.before = fs[n].data] IN
                 IF r.err # "" THEN Rejected(c, r.err)
                 ELSE /\ Len(r.text) <= MaxLen
                      /\ FileStep(c, "",
                                  [fs EXCEPT ![n] = FileEntry(WriteText(r.text))],
                                  Push(file_history, v.full, content))

Replace(path, old_str, new_str, all_occurrences) ==
    /\ "replace" \in Commands
    /\ LET Outcome(c) == ReplaceOutcome(c, old_str, new_str, all_occurrences) IN
       EditFile([Call("replace", path, path) EXCEPT !.old = old_str, !.new = new_str,
                                                    !.all = all_occurrences], Outcome)

Insert(path, line, text) ==
    /\ "insert" \in Commands
    /\ LET Outcome(c) == InsertOutcome(c, line, text) IN
       EditFile(Call("insert", path, path), Outcome)

DeleteLines(path, lines) ==
    /\ "delete_lines" \in Commands
    /\ LET Outcome(c) == DeleteLinesOutcome(c, lines) IN
       EditFile(Call("delete_lines", path, path), Outcome)

\* FileTool.undo
Undo(path) ==
    LET v == ValidatePath(path) IN
    IF ~v.ok THEN Rejected(Call("undo", path, path), "InvalidPath")
    ELSE LET n == Node(v.full)
             h == file_history[v.full] IN
         /\ n \in Nodes
         /\ IF fs[n].kind # "file" THEN Rejected(Call("undo", path, path), "NotExist")
            ELSE IF ~h.has \/ h.snaps = <<>> THEN Rejected(Call("undo", path, path), "NoHistory")
            ELSE FileStep(Call("undo", path, path), "",
                          [fs EXCEPT ![n] = FileEntry(WriteText(h.snaps[Len(h.snaps)]))],
                          [file_history EXCEPT ![v.full].snaps =
                               SubSeq(h.snaps, 1, Len(h.snaps) - 1)])

\* FileTool.write and FileTool.create (which fails on a path that exists),
\* in text mode
WriteFile(op, path, content) ==
    LET v == ValidatePath(path) IN
    IF ~v.ok THEN Rejected(Call(op, path, path), "InvalidPath")
    ELSE LET n == Node(v.full) IN
         /\ n \in Nodes
         /\ IF op = "create" /\ fs[n].kind # "none" THEN Rejected(Call(op, path, path), "Exists")
            ELSE IF ~ParentsOk(fs, n) \/ fs[n].kind = "dir"
            THEN Rejected(Call(op, path, path), "Failed")
            ELSE FileStep(Call(op, path, path), "",
                          [WithParents(fs, n) EXCEPT ![n] = FileEntry(WriteText(content))],
                          file_history)

Write(path, content) == "write" \in Commands /\ WriteFile("write", path, content)

Create(path, content) == "create" \in Commands /\ WriteFile("create", path, content)

\* FileTool.append, in text mode: no parent is created
AppendFile(path, content) ==
    LET v == ValidatePath(path) IN
    IF ~v.ok THEN Rejected(Call("append", path, path), "InvalidPath")
    ELSE LET n == Node(v.full) IN
         /\ n \in Nodes
         /\ IF fs[n].kind = "dir" \/ \E m \in Ancestors(n) : fs[m].kind # "dir"
            THEN Rejected(Call("append", path, path), "Failed")
            ELSE /\ Len(fs[n].data) + Len(content) <= MaxLen
                 /\ FileStep(Call("append", path, path), "",
                             [fs EXCEPT ![n] = FileEntry(fs[n].data \o WriteText(content))],
                             file_history)

\* FileTool.delete
Delete(path, recursive) ==
    LET v == ValidatePath(path) IN
    IF ~v.ok THEN Rejected(Call("delete", path, path), "InvalidPath")
    ELSE LET n == Node(v.full)
             gone == IF fs[n].kind = "dir" THEN {n} \cup Under(n) ELSE {n} IN
         /\ n \in Nodes
         /\ IF fs[n].kind = "none" THEN Rejected(Call("delete", path, path), "NotExist")
            ELSE IF fs[n].kind = "dir" /\ ~recursive /\ \E m \in Under(n) : fs[m].kind # "none"
            THEN Rejected(Call("delete", path, path), "Failed")
            ELSE FileStep(Call("delete", path, path), "",
                          [m \in Nodes |-> IF m \in gone THEN NoEntry ELSE fs[m]],
                          [file_history EXCEPT ![v.full] = NoHistory])

\* FileTool.mkdir
Mkdir(path) ==
    LET v == ValidatePath(path) IN
    IF ~v.ok THEN Rejected(Call("mkdir", path, path), "InvalidPath")
    ELSE LET n == Node(v.full) IN
         /\ n \in Nodes
         /\ IF ~ParentsOk(fs, n) \/ fs[n].kind = "file"
            THEN Rejected(Call("mkdir", path, path), "Failed")
            ELSE FileStep(Call("mkdir", path, path), "",
                          [WithParents(fs, n) EXCEPT ![n] = DirEntry], file_history)

\* FileTool.rmdir
Rmdir(path) ==
    LET v == ValidatePath(path) IN
    IF ~v.ok THEN Rejected(Call("rmdir", path, path), "InvalidPath")
    ELSE LET n == Node(v.full) IN
         /\ n \in Nodes
         /\ IF fs[n].kind # "dir" \/ \E m \in Under(n) : fs[m].kind # "none"
            THEN Rejected(Call("rmdir", path, path), "Failed")
            ELSE FileStep(Call("rmdir", path, path), "", [fs EXCEPT ![n] = NoEntry],
                          file_history)

\* a move that gives dst_path the list and leaves it to src_path too
RekeyKeeps(h, from, to) == IF ~h[from].has THEN h ELSE [h EXCEPT ![to] = h[from]]

\* FileTool.move, the history map: the list of src_path goes to dst_path
Rekey(h, from, to) ==
    IF ~h[from].has \/ from = to THEN h
    ELSE [h EXCEPT ![to] = h[from], ![from] = NoHistory]

\* FileTool.move of a file (the clients of the model move no directory); the
\* parent of dst is made before the rename is tried
Move(src, dst) ==
    LET vs == ValidatePath(src)
        vd == ValidatePath(dst) IN
    IF ~vs.ok \/ ~vd.ok THEN Rejected(Call("move", src, dst), "InvalidPath")
    ELSE LET ns == Node(vs.full)
             nd == Node(vd.full) IN
         /\ ns \in Nodes /\ nd \in Nodes /\ fs[ns].kind # "dir"
         /\ IF ~ParentsOk(fs, nd) THEN Rejected(Call("move", src, dst), "Failed")
            ELSE IF fs[ns].kind = "none" \/ fs[nd].kind = "dir"
            THEN FileStep(Call("move", src, dst), "Failed", WithParents(fs, nd), file_history)
            ELSE FileStep(Call("move", src, dst), "",
                          IF ns = nd THEN fs
                          ELSE [WithParents(fs, nd) EXCEPT ![nd] = fs[ns], ![ns] = NoEntry],
                          Rekey(file_history, vs.full, vd.full))

\* FileTool.copy of a file to a path that is no directory
Copy(src, dst) ==
    LET vs == ValidatePath(src)
        vd == ValidatePath(dst) IN
    IF ~vs.ok \/ ~vd.ok THEN Rejected(Call("copy", src, dst), "InvalidPath")
    ELSE LET ns == Node(vs.full)
             nd == Node(vd.full) IN
         /\ ns \in Nodes /\ nd \in Nodes /\ fs[ns].kind # "dir" /\ fs[nd].kind # "dir"
         /\ IF ~ParentsOk(fs, nd) THEN Rejected(Call("copy", src, dst), "Failed")
            ELSE IF fs[ns].kind = "none" \/ ns = nd
            THEN FileStep(Call("copy", src, dst), "Failed", WithParents(fs, nd), file_history)
            ELSE FileStep(Call("copy", src, dst), "",
                          [WithParents(fs, nd) EXCEPT ![nd] = fs[ns]], file_history)

\* the commands that change nothing: read, view, exists, list, grep; want is
\* the kinds of node the command answers without an error
Look(op, path, want) ==
    LET v == ValidatePath(path) IN
    IF ~v.ok THEN Rejected(Call(op, path, path), "InvalidPath")
    ELSE /\ Node(v.full) \in Nodes
         /\ Rejected(Call(op, path, path),
                     IF fs[Node(v.full)].kind \in want THEN "" ELSE "Failed")

Read(path) == "read" \in Commands /\ Look("read", path, {"file"})

View(path) == "view" \in Commands /\ Look("view", path, {"file", "dir"})

Exists(path) == "exists" \in Commands /\ Look("exists", path, {"file", "dir", "none"})

ListDir(path) == "list" \in Commands /\ Look("list", path, {"dir"})

Grep(path, recursive) ==
    /\ "grep" \in Commands
    /\ Look("grep", path, IF recursive THEN {"file", "dir"} ELSE {"file"})

\* ------------------------------------------------- ToolResult.__add__
\* A field of a ToolResult is None or a str, a str being its characters.
None == [some |-> FALSE, text |-> <<>>]
Str(t) == [some |-> TRUE, text |-> t]

\* the truth value of a field: None and "" are false
Truthy(f) == f.some /\ f.text # <<>>

\* the value of an expression that raises ValueError
Raises == [raised |-> TRUE, output |-> None, error |-> None, base64_image |-> None,
           system |-> None]

ToolResult(output, error, base64_image, system) ==
    [raised |-> FALSE, output |-> output, error |-> error,
     base64_image |-> base64_image, system |-> system]

\* combine_fields with concatenate=True; `field or other_field` is other_field
\* when field is None or ""
CombineFields(field, other_field) ==
    IF Truthy(field) /\ Truthy(other_field) THEN Str(field.text \o other_field.text)
    ELSE IF Truthy(field) THEN field ELSE other_field

\* ToolResult.__add__; the result of a raising operand is the exception
Combine(a, b) ==
    IF a.raised \/ b.raised THEN Raises
    ELSE IF Truthy(a.base64_image) /\ Truthy(b.base64_image) THEN Raises
    ELSE ToolResult(CombineFields(a.output, b.output),
                    CombineFields(a.error, b.error),
                    IF Truthy(a.base64_image) THEN a.base64_image ELSE b.base64_image,
                    CombineFields(a.system, b.system))

\* ToolResult(): every field None
EmptyResult == ToolResult(None, None, None, None)

\* the envelopes combined: every field absent, empty or a text
Envelopes ==
    {ToolResult(o, e, i, s) : o \in {None, Str(<<>>), Str(<<"o">>)},
                              e \in {None, Str(<<"e">>)},
                              i \in {None, Str(<<>>), Str(<<"i">>)},
                              s \in {None, Str(<<>>), Str(<<"s">>)}}

NoCalc == [fn |-> "none"]

\* a + b, (a + b) + c, a + (b + c), a + ToolResult() and ToolResult() + a
Add(a, b, c) ==
    /\ calc' = [fn |-> "add", a |-> a, b |-> b, c |-> c,
                ab |-> Combine(a, b),
                ab_c |-> Combine(Combine(a, b), c),
                a_bc |-> Combine(a, Combine(b, c)),
                a_e |-> Combine(a, EmptyResult),
                e_a |-> Combine(EmptyResult, a)]
    /\ UNCHANGED <<sessions, lock, nobj, obj, task, ws, nreq, fs, file_history, fcall, strm>>

\* ------------------------------------ _is_excluded_path, list_files
\* A name is its characters.
EXCLUDED_PATTERNS ==
    {<<"b", "a", "s", "h", "_", "s", "e", "r", "v", "e", "r", ".", "p", "y">>,
     <<"l", "s", "p", ".", "p", "y">>,
     <<".", "c", "o", "d", "e", "s", "a", "n", "d", "b", "o", "x">>,
     <<".", "d", "e", "v", "c", "o", "n", "t", "a", "i", "n", "e", "r">>,
     <<"_", "_", "p", "y", "c", "a", "c", "h", "e", "_", "_">>,
     <<"R", "E", "A", "D", "M", "E">>,
     <<"R", "E", "A", "D", "M", "E", ".", "m", "d">>,
     <<"R", "E", "A", "D", "M", "E", ".", "t", "x", "t">>,
     <<"R", "E", "A", "D", "M", "E", ".", "r", "s", "t">>}

\* The entries a workspace can hold, by their path relative to WORKSPACE_DIR:
\* kind is "file", "dir" or "link", a symbolic link to the absolute path to.
Entry(rel, kind, to) == [rel |-> rel, kind |-> kind, to |-> to]

Universe ==
    {Entry(<<An>>, "file", <<>>),
     Entry(<<<<"l", "s", "p", ".", "p", "y">>>>, "file", <<>>),
     Entry(<<<<".", "g">>>>, "dir", <<>>),
     Entry(<<<<".", "g">>, An>>, "file", <<>>),
     Entry(<<Dn>>, "dir", <<>>),
     Entry(<<Dn, <<"l", "s", "p", ".", "p", "y">>>>, "file", <<>>),
     Entry(<<Dn, <<".", "e">>>>, "file", <<>>),
     Entry(<<<<"l">>>>, "link", <<Wn, <<"l", "s", "p", ".", "p", "y">>>>),
     Entry(<<<<".", "l">>>>, "link", <<Wn, An>>)}

\* the workspaces: an entry below a directory is there with the directory
Workspaces ==
    {T \in SUBSET Universe :
        \A e \in T : Len(e.rel) > 1 =>
            \E d \in T : d.kind = "dir" /\ d.rel = SubSeq(e.rel, 1, Len(e.rel) - 1)}

\* the working directories of the server process: WORKSPACE_DIR or "/"
Cwds == {<<Wn>>, <<>>}

\* Path.resolve() in the workspace T: absolute (a relative path is joined to
\* the working directory), ".." taken away, a symbolic link followed
Resolve(path, cwd, T) ==
    LET full == Normal(<<>>, IF path.abs THEN path.segs ELSE cwd \o path.segs) IN
    IF \E e \in T : e.kind = "link" /\ Base.segs \o e.rel = full
    THEN (CHOOSE e \in T : e.kind = "link" /\ Base.segs \o e.rel = full).to
    ELSE full

\* _is_excluded_path
IsExcludedPath(path, cwd, T) ==
    LET resolved_path == Resolve(path, cwd, T)
        workspace_resolved == Base.segs IN
    IF ~(Len(resolved_path) >= Len(workspace_resolved)
         /\ SubSeq(resolved_path, 1, Len(workspace_resolved)) = workspace_resolved)
    THEN FALSE
    ELSE LET parts == SubSeq(resolved_path, Len(workspace_resolved) + 1, Len(resolved_path)) IN
         IF parts = <<>> THEN FALSE
         ELSE LET root_item == parts[1] IN
              \/ root_item \in EXCLUDED_PATTERNS
              \/ StartsWith(root_item, <<".">>)

\* ord() of the characters of the names
Ord(c) ==
    CASE c = "." -> 46 [] c = "/" -> 47 [] c = "a" -> 97 [] c = "d" -> 100
      [] c = "e" -> 101 [] c = "g" -> 103 [] c = "l" -> 108 [] c = "p" -> 112
      [] c = "s" -> 115 [] c = "y" -> 121 [] OTHER -> 0

\* a <= b for two str
RECURSIVE StrLe(_, _)
StrLe(a, b) ==
    IF a = <<>> THEN TRUE
    ELSE IF b = <<>> THEN FALSE
    ELSE IF Head(a) = Head(b) THEN StrLe(Tail(a), Tail(b))
    ELSE Ord(Head(a)) < Ord(Head(b))

\* str(relative_path)
RelStr(rel) == PathStr(Rel(rel))

\* what the scan yields: ripgrep lists the regular files, rglob every entry
Scan(T, scanner) == IF scanner = "rg" THEN {e \in T : e.kind = "file"} ELSE T

\* items.sort(key=lambda x: x["relative_path"]) of the items of the set S
RECURSIVE Sorted(_)
Sorted(S) ==
    IF S = {} THEN <<>>
    ELSE LET least == CHOOSE e \in S : \A f \in S : StrLe(RelStr(e.rel), RelStr(f.rel)) IN
         <<least>> \o Sorted(S \ {least})

\* GET /list-files in the workspace T
ListFiles(T, scanner, cwd) ==
    LET items == Sorted({e \in Scan(T, scanner) :
                            ~IsExcludedPath(Abs(Base.segs \o e.rel), cwd, T)}) IN
    /\ calc' = [fn |-> "list", T |-> T, scanner |-> scanner, cwd |-> cwd,
                items |-> items, total_items |-> Len(items)]
    /\ UNCHANGED <<sessions, lock, nobj, obj, task, ws, nreq, fs, file_history, fcall, strm>>

\* _is_excluded_path applied to the entry e of the workspace T by its
\* absolute path and by its path relative to WORKSPACE_DIR; get_file makes
\* the path absolute first
Classify(T, e, cwd) ==
    /\ calc' = [fn |-> "excluded", T |-> T, e |-> e, cwd |-> cwd,
                by_abs |-> IsExcludedPath(Abs(Base.segs \o e.rel), cwd, T),
                by_rel |-> IsExcludedPath(Rel(e.rel), cwd, T),
                get_file |-> IsExcludedPath(Abs(Resolve(Abs(Base.segs \o e.rel), cwd, T)),
                                            cwd, T)]
    /\ UNCHANGED <<sessions, lock, nobj, obj, task, ws, nreq, fs, file_history, fcall, strm>>

\* ------------------------------------------ stream_command, byte by byte
\* The bytes of stdout: "a" is a byte of output, "u1" "u2" the two bytes of
\* one character, "<" ">" the bytes of the sentinel.
SentinelBytes == <<"<", ">">>

\* what a streamed command makes the shell write to stdout: output and the
\* sentinel of the wrapper, or output only (the command ended the shell)
Outputs ==
    {s \in {<<"<", ">">>, <<"a", "<", ">">>, <<"a", "a", "<", ">">>,
            <<"u1", "u2", "<", ">">>, <<"<", "a", "<", ">">>, <<"a", "a">>,
            <<"a", "a", "a", "<", ">">>} : Len(s) <= MaxOut}

\* bytes.decode(errors="replace"): a character cut by the end or the start
\* of the data becomes "?" (U+FFFD)
RECURSIVE Decode(_)
Decode(data) ==
    IF data = <<>> THEN <<>>
    ELSE IF Head(data) = "u1"
         THEN IF Len(data) > 1 /\ data[2] = "u2"
              THEN <<"U">> \o Decode(SubSeq(data, 3, Len(data)))
              ELSE <<"?">> \o Decode(Tail(data))
    ELSE IF Head(data) = "u2" THEN <<"?">> \o Decode(Tail(data))
    ELSE <<Head(data)>> \o Decode(Tail(data))

\* buffer.partition(sentinel)[0]: the text before the first sentinel, the
\* whole text when there is none
RECURSIVE Before(_)
Before(text) ==
    IF text = <<>> \/ Occurs(text, SentinelBytes, 1) THEN <<>>
    ELSE <<Head(text)>> \o Before(Tail(text))

\* pc: "idle" (no stream yet), "stream" (the generator is open, suspended in
\* queue.get or at its yield), "abandoned" (the handler left `async for` by
\* an exception, the `finally` of the generator has not run), "ended".  todo
\* is what the shell has still to write, wrote what it has written, pipe the
\* bytes in the StreamReader, q the queue (end for None), out the chunks
\* sent to the client, rd / erd the stdout / stderr reader task.
NoStream ==
    [pc |-> "idle", todo |-> <<>>, wrote |-> <<>>, pipe |-> <<>>, eof |-> FALSE,
     q |-> <<>>, out |-> <<>>, rd |-> "none", erd |-> "none", busy |-> FALSE,
     conn |-> TRUE]

StreamStep(next) ==
    /\ strm' = next
    /\ UNCHANGED <<sessions, lock, nobj, obj, task, ws, nreq, fs, file_history, fcall, calc>>

\* stream_command up to its first queue.get(): busy is set, the wrapped
\* command written, both reader tasks created
StreamCommand(output) ==
    /\ strm.pc = "idle"
    /\ StreamStep([strm EXCEPT !.pc = "stream", !.todo = output, !.busy = TRUE,
                               !.rd = "run", !.erd = "run"])

\* the shell writes the next k bytes to its stdout
ShellWrites(k) ==
    /\ strm.pc # "idle" /\ ~strm.eof /\ k <= Len(strm.todo)
    /\ StreamStep([strm EXCEPT !.todo = SubSeq(@, k + 1, Len(@)),
                               !.wrote = @ \o SubSeq(strm.todo, 1, k),
                               !.pipe = @ \o SubSeq(strm.todo, 1, k)])

\* the shell exits: its stdout is at end-of-file after the bytes written
ShellExits ==
    /\ strm.pc # "idle" /\ ~strm.eof
    /\ StreamStep([strm EXCEPT !.eof = TRUE, !.todo = <<>>])

\* _reader(stdout), one turn of its loop with data: read(chunk_size) returns
\* the bytes buffered, chunk_size of them at most; buffer is "" before it
StdoutReader ==
    /\ strm.rd = "run" /\ strm.pipe # <<>>
    /\ LET n == IF Len(strm.pipe) < ChunkSize THEN Len(strm.pipe) ELSE ChunkSize
           data == SubSeq(strm.pipe, 1, n)
           buffer == Decode(data)
           before == Before(buffer) IN
       StreamStep([strm EXCEPT
           !.pipe = SubSeq(@, n + 1, Len(@)),
           !.q = IF Contains(buffer, SentinelBytes)
                 THEN (IF before # <<>> THEN Append(@, Item(before)) ELSE @) \o <<EndItem>>
                 ELSE Append(@, Item(buffer)),
           !.rd = IF Contains(buffer, SentinelBytes) THEN "done" ELSE "run"])

\* _reader(stdout): read returns b"" at end-of-file, the loop breaks and the
\* task ends; nothing is queued
StdoutReaderEof ==
    /\ strm.rd = "run" /\ strm.pipe = <<>> /\ strm.eof
    /\ StreamStep([strm EXCEPT !.rd = "done"])

\* _reader(stdout): read raises (the pipe is reset, another coroutine waits
\* on the same StreamReader); the task ends with the exception, nothing is
\* queued
StdoutReaderError ==
    /\ strm.rd = "run"
    /\ StreamStep([strm EXCEPT !.rd = "failed"])

\* the `finally` of stream_command: both tasks cancelled, busy cleared
Finally(st) ==
    [st EXCEPT !.pc = "ended", !.busy = FALSE,
               !.rd = IF @ = "run" THEN "cancelled" ELSE @,
               !.erd = IF @ = "run" THEN "cancelled" ELSE @]

\* queue.get() returns a chunk: it is yielded and send_text sends it
StreamYield ==
    /\ strm.pc = "stream" /\ strm.q # <<>> /\ ~Head(strm.q).end /\ strm.conn
    /\ StreamStep([strm EXCEPT !.q = Tail(@), !.out = @ \o Head(strm.q).data])

\* queue.get() returns a chunk, send_text raises: the handler leaves
\* `async for`, the generator stays suspended at its yield
StreamSendFails ==
    /\ strm.pc = "stream" /\ strm.q # <<>> /\ ~Head(strm.q).end /\ ~strm.conn
    /\ StreamStep([strm EXCEPT !.pc = "abandoned", !.q = Tail(@)])

\* queue.get() returns None: the loop breaks, `finally` runs
StreamEnd ==
    /\ strm.pc = "stream" /\ strm.q # <<>> /\ Head(strm.q).end
    /\ StreamStep(Finally([strm EXCEPT !.q = Tail(@)]))

\* the client closes the connection
StreamClientLeaves ==
    /\ strm.pc = "stream" /\ strm.conn
    /\ StreamStep([strm EXCEPT !.conn = FALSE])

\* the event loop finalizes the abandoned generator: its `finally` runs
StreamFinalized ==
    /\ strm.pc = "abandoned"
    /\ StreamStep(Finally(strm))

\* ------------------------------------------------------ specification
Init ==
    /\ sessions = [i \in Ids |-> NoObj]
    /\ lock = 0
    /\ nobj = 0
    /\ obj = [o \in Objs |-> FreshSession]
    /\ task = [t \in Tasks |-> IdleTask]
    /\ ws = NoWs
    /\ nreq = 0
    /\ fs = [n \in Nodes |-> IF n \in {<<Wn>>, <<Wn, Dn>>, <<W2n>>} THEN DirEntry
                             ELSE FileEntry(<<"x">>)]
    /\ file_history = [k \in Keys |-> NoHistory]
    /\ fcall = NoCall
    /\ calc = NoCalc
    /\ strm = NoStream

\* coroutine t accepts a command for a session
Execute(t) ==
    \/ \E c \in {CmdOf(t), NoCmd}, i \in ClientIds \cup {NoId} : ExecCreate(t, c, i)
    \/ \E c \in {CmdOf(t), NoCmd}, i \in ClientIds \cup {NoId} : ExecExisting(t, c, i)

\* coroutine t accepts a restart, list_sessions or check_session request
Manage(t) ==
    \/ \E i \in ClientIds \cup {NoId} : RestartBegin(t, i)
    \/ ListSessions(t)
    \/ \E i \in ClientIds : CheckSession(t, i)

\* coroutine t goes on with the request it accepted
Step(t) ==
    \/ ExecStarted(t) \/ ExecStartFailed(t)
    \/ Return(t)
    \/ RunSentinel(t) \/ RunWaitAgain(t) \/ RunEof(t) \/ RunTimeout(t)

\* coroutine t goes on with a restart
RestartStep(t) == RestartStarted(t) \/ RestartFailed(t)

\* coroutine t goes on with an auto-recovery it holds the lock for
Recover(t) == RecoverStarted(t) \/ RecoverFailed(t)

\* one step of run()'s fallback after a LimitOverrunError
Fallback(t) ==
    \/ RunOverrun(t)
    \/ ChunkData(t) \/ ChunkSentinel(t) \/ ChunkWait(t) \/ ChunkEof(t)
    \/ ChunkReadTimeout(t) \/ ChunkDeadline(t)

\* one step of a shell subprocess
Shell ==
    \/ \E o \in Objs : ProcEmit(o)
    \/ \E o \in Objs : ProcFinish(o)
    \/ \E o \in Objs : ProcExit(o)
    \/ \E o \in Objs : ProcReap(o)

\* one step of the /bash/ws connection, its stream and its reader task
WebSocket ==
    \/ WsAccept \/ WsStarted \/ WsStartFailed
    \/ WsCommand(CmdOf(WsId))
    \/ WsRead \/ WsReadWait \/ WsReadEof \/ WsReadStderr
    \/ WsEnd \/ WsSend \/ WsDisconnect \/ WsRecvClosed \/ WsSendFailed
    \/ WsGenClose \/ WsPop

\* The /bash endpoint served to NumTasks concurrent requests.  With MaxReq
\* requests no third coroutine holds the manager's lock when a recovery
\* needs it: RecoverLock belongs to NextErr.
Next ==
    \/ \E t \in Tasks : nreq < MaxReq /\ (Execute(t) \/ Manage(t))
    \/ \E t \in Tasks : Step(t) \/ RestartStep(t) \/ Recover(t) \/ Fallback(t)
    \/ Shell

Spec == Init /\ [][Next]_vars

\* The websocket endpoint beside one /bash client whose commands' output stays
\* below the stream limit; the shells write to stderr too, never the phrase,
\* and with MaxWsReq requests no recovery begins.
NextWs ==
    \/ nreq < MaxWsReq /\ (Execute(1) \/ Manage(1))
    \/ Step(1) \/ RestartStep(1)
    \/ Shell \/ (\E o \in Objs, e \in ErrTexts \ StreamTextErrors : ProcStderr(o, e))
    \/ WebSocket

SpecWs == Init /\ [][NextWs]_vars

\* the event loop runs every coroutine and every reader task that can run,
\* and a command a shell runs comes to its end
SpecWsFair ==
    /\ SpecWs
    /\ WF_vars(Step(1) \/ RestartStep(1))
    /\ \A o \in Objs : WF_vars(ProcFinish(o))
    /\ WF_vars(WsStarted \/ WsStartFailed)
    /\ WF_vars(WsRead) /\ WF_vars(WsReadWait) /\ WF_vars(WsReadEof)
    /\ WF_vars(WsEnd) /\ WF_vars(WsSend) /\ WF_vars(WsSendFailed)
    /\ WF_vars(WsRecvClosed) /\ WF_vars(WsGenClose) /\ WF_vars(WsPop)

\* Commands that write the phrase to stderr and stay below the stream limit:
\* a recovery can follow a wait and find the manager's lock held by another
\* request.
NextErr ==
    \/ \E t \in Tasks : nreq < MaxReq /\ Execute(t)
    \/ \E t \in Tasks : Step(t) \/ Recover(t) \/ RecoverLock(t)
    \/ Shell \/ (\E o \in Objs, e \in StreamTextErrors : ProcStderr(o, e))

SpecErr == Init /\ [][NextErr]_vars

\* One client that sends its next /bash request when it has the answer to the
\* last one.
NextSolo ==
    \/ nreq < MaxSoloReq /\ (Execute(1) \/ Manage(1))
    \/ Step(1) \/ RestartStep(1) \/ Recover(1) \/ Fallback(1)
    \/ Shell

SpecSolo == Init /\ [][NextSolo]_vars

\* the connection's coroutine as far as the map goes: accept, disconnect, pop
Connection ==
    \/ WsAccept \/ WsStarted \/ WsStartFailed
    \/ WsDisconnect \/ WsRecvClosed \/ WsPop

\* Every writer of the session map side by side: executes of session 1 whose
\* commands write the phrase to stderr and nothing to stdout, restarts of
\* session 1, recoveries, and a websocket connection that sends no command.
NextMap ==
    \/ \E t \in Tasks : nreq < MaxReq /\
           (ExecCreate(t, CmdOf(t), 1) \/ ExecExisting(t, CmdOf(t), 1) \/ RestartBegin(t, 1))
    \/ \E t \in Tasks : Step(t) \/ RestartStep(t) \/ Recover(t) \/ RecoverLock(t)
    \/ \E o \in Objs : ProcFinish(o) \/ ProcExit(o) \/ ProcReap(o)
    \/ \E o \in Objs, e \in StreamTextErrors : ProcStderr(o, e)
    \/ Connection

SpecMap == Init /\ [][NextMap]_vars

\* the event loop runs every coroutine that can run: a start() under the
\* lock returns or raises
SpecMapFair ==
    /\ SpecMap
    /\ \A t \in Tasks : WF_vars(ExecStarted(t) \/ ExecStartFailed(t))
    /\ \A t \in Tasks : WF_vars(RestartStep(t))
    /\ \A t \in Tasks : WF_vars(Recover(t))
    /\ WF_vars(WsStarted \/ WsStartFailed)

\* The texts of the edits of one file: lines that end in "\n" and in "\r\n",
\* a string that occurs once or twice.
EditTexts == {<<"x">>, <<"x", "x">>, <<"x", LF, "x">>, <<"x", CR, LF, "x">>}
OldStrs == {<<"x">>, <<"x", LF, "x">>}
NewStrs == {<<"x">>, <<"y">>, <<"y", LF, "y">>}

\* The text editor on the file a of the workspace.
NextEdit ==
    \/ \E c \in EditTexts : nreq < MaxEdits /\ Write(PA, c)
    \/ \E o \in OldStrs, n \in NewStrs, b \in BOOLEAN :
           nreq < MaxEdits /\ Replace(PA, o, n, b)
    \/ \E l \in 1..3 : nreq < MaxEdits /\ Insert(PA, l, <<"y">>)
    \/ \E l \in 1..2 : nreq < MaxEdits /\ DeleteLines(PA, {l})
    \/ nreq < MaxEdits /\ Undo(PA)

SpecEdit == Init /\ [][NextEdit]_vars

\* A client that writes the file a, edits it and undoes its edits.
NextUndo ==
    \/ \E c \in {<<"x">>, <<"x", CR, LF, "x">>} : nreq = 0 /\ Write(PA, c)
    \/ \E n \in {<<"x">>, <<"y">>} : nreq < MaxUndoCalls /\ Replace(PA, <<"x">>, n, TRUE)
    \/ nreq < MaxUndoCalls /\ Insert(PA, 1, <<"y">>)
    \/ nreq < MaxUndoCalls /\ DeleteLines(PA, {1})
    \/ nreq < MaxUndoCalls /\ Undo(PA)

SpecUndo == Init /\ [][NextUndo]_vars

\* Every command of the file tool on every path the clients send, the texts
\* one character long.
NextTree ==
    \/ \E p \in AllPaths : nreq < MaxCalls /\ Read(p)
    \/ \E p \in AllPaths : nreq < MaxCalls /\ View(p)
    \/ \E p \in AllPaths : nreq < MaxCalls /\ Exists(p)
    \/ \E p \in AllPaths : nreq < MaxCalls /\ ListDir(p)
    \/ \E p \in AllPaths, b \in BOOLEAN : nreq < MaxCalls /\ Grep(p, b)
    \/ \E p \in AllPaths : nreq < MaxCalls /\ Write(p, <<"y">>)
    \/ \E p \in AllPaths : nreq < MaxCalls /\ Create(p, <<"y">>)
    \/ \E p \in AllPaths : nreq < MaxCalls /\ AppendFile(p, <<"y">>)
    \/ \E p \in AllPaths, b \in BOOLEAN : nreq < MaxCalls /\ Delete(p, b)
    \/ \E p \in AllPaths : nreq < MaxCalls /\ Mkdir(p)
    \/ \E p \in AllPaths : nreq < MaxCalls /\ Rmdir(p)
    \/ \E s \in MovePaths, d \in MovePaths : nreq < MaxCalls /\ Move(s, d)
    \/ \E s \in MovePaths, d \in MovePaths : nreq < MaxCalls /\ Copy(s, d)
    \/ \E p \in AllPaths, b \in BOOLEAN : nreq < MaxCalls /\ Replace(p, <<"x">>, <<"y">>, b)
    \/ \E p \in AllPaths : nreq < MaxCalls /\ Insert(p, 1, <<"y">>)
    \/ \E p \in AllPaths : nreq < MaxCalls /\ DeleteLines(p, {1})
    \/ \E p \in AllPaths : nreq < MaxCalls /\ Undo(p)

SpecTree == Init /\ [][NextTree]_vars

\* One /bash client that names its sessions by any integer the request model
\* accepts (`session: Optional[int]`), MinId being the least it sends.
NextIds ==
    \/ \E c \in {CmdOf(1), NoCmd}, i \in Ids \cup {NoId} :
           nreq < MaxReq /\ (ExecCreate(1, c, i) \/ ExecExisting(1, c, i))
    \/ \E i \in Ids \cup {NoId} : nreq < MaxReq /\ RestartBegin(1, i)
    \/ Step(1) \/ RestartStep(1)
    \/ Shell

SpecIds == Init /\ [][NextIds]_vars

\* A /bash client and a websocket client whose commands are short or longer
\* than MAX_COMMAND_LENGTH.
NextLong ==
    \/ \E c \in {CmdOf(1), LongCmd}, i \in {1, NoId} :
           nreq < MaxReq /\ (ExecCreate(1, c, i) \/ ExecExisting(1, c, i))
    \/ Step(1)
    \/ Shell
    \/ WsAccept \/ WsStarted \/ WsStartFailed
    \/ \E c \in {CmdOf(WsId), LongCmd} : WsCommand(c)
    \/ WsRead \/ WsReadWait \/ WsReadEof
    \/ WsEnd \/ WsSend \/ WsDisconnect \/ WsRecvClosed \/ WsSendFailed
    \/ WsGenClose \/ WsPop

SpecLong == Init /\ [][NextLong]_vars

\* the bodies one client sends
Requests ==
    {BashRequest(c, s, r, l, k) :
        c \in {CmdOf(1), NoCmd}, s \in {1, NoId}, r \in BOOLEAN, l \in BOOLEAN,
        k \in {1, 2, NoId}}

\* One client whose requests set any of the fields of BashRequest together.
NextDispatch ==
    \/ \E req \in Requests : nreq < MaxSoloReq /\ BashAction(1, req)
    \/ Step(1) \/ RestartStep(1)
    \/ Shell

SpecDispatch == Init /\ [][NextDispatch]_vars

\* GET /list-files once, in every workspace, by either scanner
NextList ==
    calc = NoCalc /\ \E T \in Workspaces, scanner \in {"rg", "rglob"}, cwd \in Cwds :
                         ListFiles(T, scanner, cwd)

SpecList == Init /\ [][NextList]_vars

\* _is_excluded_path once, on every entry of every workspace
NextClassify ==
    calc = NoCalc /\ \E T \in Workspaces, cwd \in Cwds : \E e \in T : Classify(T, e, cwd)

SpecClassify == Init /\ [][NextClassify]_vars

\* ToolResult.__add__ applied once, to every three envelopes
NextAdd == calc = NoCalc /\ \E a, b, c \in Envelopes : Add(a, b, c)

SpecAdd == Init /\ [][NextAdd]_vars

\* one stream_command of a websocket connection, its shell and its client
NextStream ==
    \/ \E output \in Outputs : StreamCommand(output)
    \/ \E k \in 1..MaxOut : ShellWrites(k)
    \/ ShellExits
    \/ StdoutReader \/ StdoutReaderEof \/ StdoutReaderError
    \/ StreamYield \/ StreamSendFails \/ StreamEnd
    \/ StreamClientLeaves \/ StreamFinalized

SpecStream == Init /\ [][NextStream]_vars

\* the event loop runs every coroutine that can run, the shell writes what
\* it has to write
SpecStreamFair == SpecStream /\ WF_vars(NextStream)

\* ------------------------------------------------------------------ claims
\* coroutine t is suspended in run(), reading the stdout of its session
Waiting(t) == task[t].pc \in {"wait", "chunks", "cwait"}

\* the session objects constructed so far
Made == 1..nobj

\* C1: at most one command is in flight per session: no two requests are
\* suspended in run() on the stdout of the same session object, and the
\* session a request waits on stays busy (no probe of another request has
\* opened the slot) for as long as the session is not stopped.
C1_OneCallerPerSession ==
    \A t \in Tasks : Waiting(t) =>
        /\ \A u \in Tasks : (u # t /\ Waiting(u)) => task[u].o # task[t].o
        /\ obj[task[t].o].proc = "run" => obj[task[t].o].busy

\* C2: a session is busy only while exactly one command has been written to
\* its stdin since a sentinel was last observed.
C2_BusyOneCommand == \A o \in Made : obj[o].busy => obj[o].wr = 1

\* a coroutine is inside run() or stream_command() on session object o
InCall(o) ==
    \/ \E t \in Tasks : Waiting(t) /\ task[t].o = o
    \/ ws.pc = "stream" /\ ws.o = o

\* C3: a session that stays busy after the call that submitted its command
\* has returned (a timed-out command) is started and its subprocess has not
\* exited.
C3_BusyAlive ==
    \A o \in Made : (obj[o].busy /\ ~InCall(o)) => (obj[o].started /\ ~Exited(obj[o]))

\* the id is absent from the map or names an idle session
Selectable(i) == sessions[i] = NoObj \/ ~obj[sessions[i]].busy

\* coroutine t accepts, in this step, an execute of a command without a
\* session id
AutoSelects(t) ==
    /\ task[t].pc = "idle" /\ task'[t].pc # "idle"
    /\ task'[t].kind = "execute" /\ task'[t].cmd # NoCmd /\ task'[t].sess = NoId

\* C4: an execute without a session id works on the smallest positive id
\* that is absent from the map or idle; a session is constructed, put in the
\* map at that id and started exactly when the id is absent (id 1 for an
\* empty map, id 2 when session 1 is busy and there is no session 2).
C4_Selection ==
    [][\A t \in Tasks : AutoSelects(t) =>
          LET i == task'[t].sid IN
          /\ i \in 1..MaxId /\ Selectable(i)
          /\ \A j \in 1..(i - 1) : ~Selectable(j)
          /\ IF sessions[i] = NoObj
             THEN /\ task'[t].pc = "starting" /\ task'[t].o = nobj + 1
                  /\ nobj' = nobj + 1
                  /\ sessions' = [sessions EXCEPT ![i] = nobj + 1]
                  /\ obj'[nobj + 1] = FreshSession
             ELSE /\ task'[t].pc # "starting"
                  /\ task'[t].auto \/ (sessions' = sessions /\ nobj' = nobj)]_vars

\* C4, its case: session 1 is busy, and the command sent without an id waits
\* in the session 2 that was created for it
C4_SecondSessionCreated ==
    \E t \in Tasks :
        /\ task[t].kind = "execute" /\ task[t].sess = NoId /\ task[t].sid = 2
        /\ task[t].pc = "wait" /\ task[t].created /\ sessions[2] = task[t].o
        /\ sessions[1] # NoObj /\ obj[sessions[1]].busy

\* coroutine t accepts, in this step, an execute of a command for the session
\* id it names, and the session at that id is busy with no sentinel buffered
ToBusy(t) ==
    /\ task[t].pc = "idle" /\ task'[t].pc # "idle"
    /\ task'[t].kind = "execute" /\ task'[t].cmd # NoCmd /\ task'[t].sess # NoId
    /\ sessions[task'[t].sess] # NoObj
    /\ LET ob == obj[sessions[task'[t].sess]] IN
       ob.busy /\ ob.proc # "none" /\ ~HasSentinel(ob.buf)

\* the answer to ToBusy(t) but for the partial stdout buffer: a Busy result
\* that names the occupying command, nothing written, nothing constructed
BusyAnswer(t) ==
    LET o == sessions[task'[t].sess] IN
    /\ task'[t].pc = "done" /\ task'[t].res.sys = "SessionBusy"
    /\ task'[t].res.name = obj[o].last /\ task'[t].res.err = ""
    /\ obj'[o].busy /\ obj'[o].last = obj[o].last
    /\ obj'[o].inq = obj[o].inq /\ obj'[o].wr = obj[o].wr
    /\ obj'[o].buf = obj[o].buf /\ obj'[o].ebuf = obj[o].ebuf
    /\ obj'[o].perr = obj[o].perr
    /\ sessions' = sessions /\ nobj' = nobj
    /\ \A x \in Objs \ {o} : obj'[x] = obj[x]

TimesOut(t) ==
    task[t].pc = "wait" /\ task'[t].pc # "wait" /\ task'[t].res.sys = "TimedOut"

\* C6 (as amended): a run() whose timeout elapses returns the timed-out
\* result with the partial output and the filtered partial stderr; unless
\* that stderr text holds a phrase of the recovery's condition, the request
\* returns it without a recovery, and the return changes neither the busy
\* flag of the session nor its subprocess nor the map: a session that was
\* busy and registered when the timeout fired is so on return.
C6_TimeoutKeeps ==
    [][\A t \in Tasks : TimesOut(t) =>
          LET o == task[t].o IN
          /\ task'[t].res.out = obj[o].pout
          /\ task'[t].res.err = ErrOf(obj[o].perr)
          /\ task'[t].res.err \notin StreamTextErrors =>
                /\ task'[t].pc = "done"
                /\ obj'[o].busy = obj[o].busy /\ obj'[o].proc = obj[o].proc
                /\ obj'[o].started = obj[o].started /\ obj'[o].last = obj[o].last
                /\ obj'[o].inq = obj[o].inq
                /\ sessions' = sessions /\ nobj' = nobj]_vars

\* C6 (as stated): when run() returns the timed-out result the session is
\* busy, is in the map under the same id with the same running subprocess,
\* and no recovery has begun.
C6_TimeoutStillBusy ==
    [][\A t \in Tasks : TimesOut(t) =>
          LET o == task[t].o IN
          /\ task'[t].pc = "done" /\ task'[t].res.err = ""
          /\ obj'[o].busy /\ obj'[o].proc = "run"
          /\ sessions'[task[t].sid] = o]_vars

\* C6, its case: a request has returned the timed-out result and its session
\* is busy, running and registered under the id
C6_TimedOutBusy ==
    \E t \in Tasks :
        /\ task[t].pc = "done" /\ task[t].res.sys = "TimedOut" /\ ~task[t].res.auto
        /\ obj[task[t].o].busy /\ obj[task[t].o].proc = "run"
        /\ sessions[task[t].sid] = task[t].o

\* the execute of coroutine t, which has written its command to the stdin of
\* its session, returns in this step
WriterReturns(t) ==
    /\ task'[t].pc = "done" /\ task[t].pc # "done"
    /\ task'[t].kind = "execute" /\ task'[t].writes > 0

\* C7: an execute that wrote its command returns either with the sentinel
\* observed, the session idle, or on the timeout, the session busy: it never
\* returns leaving the session busy otherwise, nor idle with the command
\* unfinished and the subprocess alive.
C7_ReturnMatchesBusy ==
    [][\A t \in Tasks : WriterReturns(t) =>
          LET ob == obj'[task'[t].o]
              R  == task'[t].res IN
          /\ ob.busy => R.on = "timeout"
          /\ ~ob.busy => (R.on = "sentinel" \/ ob.proc # "run")]_vars

\* coroutine t answers, in this step, a check_session for a session that a
\* timed-out command left busy
ChecksTimedOut(t) ==
    /\ task[t].pc = "idle" /\ task'[t].pc = "done" /\ task'[t].kind = "check"
    /\ sessions[task'[t].sess] # NoObj
    /\ LET o == sessions[task'[t].sess] IN
       obj[o].busy /\ obj[o].proc = "run" /\ ~InCall(o)

\* C8: after a command timed out in a session, check_session answers "still
\* running" while no sentinel is on the session's stdout, and "Command
\* completed" with the output the command wrote once the sentinel is there.
C8_CheckAfterTimeout ==
    [][\A t \in Tasks : ChecksTimedOut(t) =>
          LET ob == obj[sessions[task'[t].sess]]
              R  == task'[t].res IN
          IF HasSentinel(ob.buf)
          THEN R.sys = "Completed" /\ R.out = StripSentinel(ob.buf)
          ELSE R.sys = "StillRunning"]_vars

\* coroutine t accepts a restart in this step / returns from it with
\* "Session ... has been restarted"
RestartAccepted(t) ==
    task[t].pc = "idle" /\ task'[t].pc # "idle" /\ task'[t].kind = "restart"

RestartReturns(t) ==
    task[t].kind = "restart" /\ task[t].pc # "done" /\ task'[t].pc = "done"
    /\ task'[t].res.sys = "Restarted"

\* the id a restart request sent with session id sess acts on
RestartId(sess) == IF sess = NoId THEN 1 ELSE sess

\* C9: a restart acts on the id it names, on id 1 when it names none; it
\* stops the session registered there and registers an object constructed
\* for it, and when it returns successfully that object is the session at
\* the id, started on a subprocess of its own, idle, with no last command
\* and empty partial buffers, and the subprocess of the previous session
\* has been terminated (or was not running).
C9_Restart ==
    [][\A t \in Tasks :
          /\ RestartAccepted(t) =>
                LET i == RestartId(task'[t].sess) IN
                /\ task'[t].old = sessions[i]
                /\ sessions'[i] = nobj + 1 /\ nobj' = nobj + 1
                /\ task'[t].o = nobj + 1
          /\ RestartReturns(t) =>
                LET i   == RestartId(task[t].sess)
                    n   == sessions'[i]
                    old == task[t].old IN
                /\ n = task[t].o /\ n # old
                /\ obj'[n].started /\ obj'[n].proc = "run" /\ ~obj'[n].busy
                /\ obj'[n].last = "" /\ obj'[n].pout = <<>> /\ obj'[n].perr = ""
                /\ obj'[n].buf = <<>> /\ obj'[n].inq = 0
                /\ old # NoObj => obj'[old].proc # "run"]_vars

\* C9, its case: a restart has returned successfully for an id whose previous
\* session was running a command
C9_Restarted ==
    \E t \in Tasks :
        /\ task[t].pc = "done" /\ task[t].res.sys = "Restarted"
        /\ task[t].old # NoObj /\ obj[task[t].old].last # ""
        /\ obj[task[t].old].proc \in {"term", "dead", "exit"}
        /\ sessions[task[t].sid] = task[t].o /\ obj[task[t].o].started

\* the first run() of the execute of coroutine t returns, in this step, a
\* result of one of the three kinds: "must be restarted", a stream-reading
\* error without a sentinel, "completed despite stream reading issue"
FirstRunAsksRecovery(t) ==
    /\ task'[t].kind = "execute" /\ ~task[t].auto
    /\ task[t].pc \in {"idle", "starting", "wait", "chunks", "cwait"}
    /\ task'[t].pc \notin {"idle", "starting", "wait", "chunks", "cwait"}
    /\ task'[t].res.sys \in {"MustRestart", "StreamError", "CompletedDespite"}

\* C10: each of the three kinds of result makes the manager recover: it takes
\* the lock (or waits for it), stops the session, registers and starts a
\* replacement under the same id and runs the command again.
C10_Recovers ==
    [][\A t \in Tasks : FirstRunAsksRecovery(t) =>
          /\ task'[t].pc \in {"astarting", "alock"}
          /\ task'[t].pc = "astarting" =>
                /\ lock' = t /\ task'[t].auto
                /\ sessions'[task'[t].sid] = task'[t].o /\ task'[t].o = nobj + 1
                /\ obj'[task'[t].old].proc # "run"]_vars

\* the recovery of coroutine t replaces the session in this step
Replaces(t) == task[t].pc # "astarting" /\ task'[t].pc = "astarting"

\* start() of the replacement returns to (or raises in) coroutine t in this step
ReplacementOver(t) == task[t].pc = "astarting" /\ task'[t].pc # "astarting"

\* the second run() of coroutine t returns in this step
RerunReturns(t) ==
    /\ task[t].auto /\ task[t].pc \in {"wait", "chunks", "cwait"}
    /\ task'[t].pc \notin {"wait", "chunks", "cwait"}

\* C11: within one execute call the session is replaced at most once (by a
\* call that has not replaced it yet, which has written its command at most
\* once); when start() of the replacement returns the command is run again,
\* once, and written to the new subprocess, or start() raised and the call
\* returns that failure; the command is written at most twice in all; and
\* whatever the second run() returns, a restart-required or stream error
\* included, is returned to the caller: nothing is stopped, constructed,
\* registered or written after it.
C11_SingleShot ==
    [][\A t \in Tasks :
          /\ task'[t].writes <= 2
          /\ (task[t].auto /\ task'[t].pc # "idle") => task'[t].auto
          /\ Replaces(t) =>
                /\ ~task[t].auto /\ task'[t].auto /\ task'[t].writes <= 1
                /\ lock' = t /\ nobj' = nobj + 1
                /\ sessions' = [sessions EXCEPT ![task'[t].sid] = nobj + 1]
          /\ ReplacementOver(t) =>
                /\ sessions' = sessions /\ nobj' = nobj /\ lock' = 0
                /\ \/ /\ task'[t].pc = "wait" /\ task'[t].writes = task[t].writes + 1
                      /\ obj'[task[t].o].wr = 1 /\ obj'[task[t].o].last = task[t].cmd
                   \/ /\ task'[t].pc = "done" /\ task'[t].res.err = "FailedAutoRestart"
                      /\ task'[t].writes = task[t].writes
                      /\ obj'[task[t].o].wr = 0
          /\ RerunReturns(t) =>
                /\ task'[t].pc = "done" /\ task'[t].writes = task[t].writes
                /\ task'[t].res.auto \/ task'[t].res.err = "FailedAutoRestart"
                /\ sessions' = sessions /\ nobj' = nobj /\ lock' = lock
                /\ \A x \in Objs : obj'[x].proc = obj[x].proc /\ obj'[x].wr <= obj[x].wr]_vars

\* C11, its case: the second run() of a call ended with a result that asks
\* for the recovery again, and the call returned it, the command written twice
C11_RerunFailureReturned ==
    \E t \in Tasks :
        /\ task[t].pc = "done" /\ task[t].res.auto /\ Trigger(task[t].res)
        /\ task[t].writes = 2 /\ sessions[task[t].sid] = task[t].o

\* the coroutine c is suspended in start() inside `async with _sessions_lock`
InLockedStart(c) ==
    IF c = WsId THEN ws.pc = "starting"
    ELSE task[c].pc \in {"starting", "rstarting", "astarting"}

\* the lock is free or held by a coroutine suspended in start() in the block
LockHeldInStart ==
    /\ lock \in {0, WsId} \cup Tasks
    /\ lock # 0 => InLockedStart(lock)

\* the coroutine c takes a step
Acts(c) == IF c = WsId THEN ws' # ws ELSE task'[c] # task[c]

\* C12: the session map changes only in a step of a coroutine that holds the
\* lock: one that takes the free lock in that step, or the holder itself (no
\* step changes the map while another coroutine holds the lock); and the
\* lock is released on every way out of the locked block: it is held only
\* by a coroutine suspended in start() inside the block.
C12_MapUnderLock ==
    [][/\ sessions' # sessions =>
             \/ lock = 0
             \/ lock # 0 /\ InLockedStart(lock) /\ Acts(lock)
       /\ LockHeldInStart'
       /\ (lock # 0 /\ Acts(lock)) => lock' = 0]_vars

\* C12, its case: the connection's handler waits for the lock to remove its
\* session while a recovery holds the lock, having replaced a session
C12_PopWaitsForRecovery ==
    \E t \in Tasks :
        /\ ws.pc = "closing" /\ sessions[ws.sid] = ws.o
        /\ lock = t /\ task[t].pc = "astarting" /\ sessions[task[t].sid] = task[t].o

\* ----------------------------------------------------- claims, FileTool
\* this step is a call of the file tool
FileCalled == nreq' # nreq /\ task' = task /\ ws' = ws

\* the node a command given the path p works on, if it accepts p
Accessed(p) == Normal(<<>>, IF p.abs THEN p.segs ELSE Base.segs \o p.segs)

\* the node is the workspace root or below it
Inside(n) == Len(n) >= Len(Base.segs) /\ SubSeq(n, 1, Len(Base.segs)) = Base.segs

\* the key of _file_history for the path p (a path the validation accepts)
KeyOf(p) == ValidatePath(p).full

HLen(h, k) == Len(h[k].snaps)

Edits == {"replace", "insert", "delete_lines"}

\* C13: a command is accepted only if every path it is given leads to the
\* workspace root or below it; a request with a path that leads elsewhere is
\* rejected with the invalid-path error and changes no file.
C13_PathsStayInside ==
    [][FileCalled =>
          \A p \in {fcall'.path, fcall'.dst} :
              /\ fcall'.err # "InvalidPath" => Inside(Accessed(p))
              /\ ~Inside(Accessed(p)) => (fcall'.err = "InvalidPath" /\ fs' = fs)]_vars

\* C14: no history holds more than 2 snapshots, and right after a successful
\* replace, insert or delete_lines the newest snapshot of the file's history
\* is what the file held right before the command.
C14_NewestIsBefore ==
    [][FileCalled =>
          /\ \A k \in Keys : HLen(file_history', k) <= 2
          /\ (fcall'.op \in Edits /\ fcall'.err = "") =>
                LET snaps == file_history'[KeyOf(fcall'.path)].snaps IN
                /\ snaps # <<>>
                /\ snaps[Len(snaps)] = fs[Accessed(fcall'.path)].data]_vars

\* this step is an undo of the file that the call before it, a successful
\* replace, insert or delete_lines, has edited
UndoAfterEdit ==
    /\ FileCalled /\ fcall'.op = "undo"
    /\ fcall.op \in Edits /\ fcall.err = "" /\ fcall.path = fcall'.path

\* C15: an undo right after a successful edit of a file gives the file the
\* bytes it held before the edit, line endings and trailing newline
\* included, and makes the file's history one snapshot shorter.
C15_UndoRestores ==
    [][UndoAfterEdit =>
          LET k == KeyOf(fcall.path) IN
          /\ fcall'.err = ""
          /\ fs'[Accessed(fcall.path)].data = fcall.before
          /\ HLen(file_history', k) = HLen(file_history, k) - 1]_vars

\* C16: a replace whose old_str equals its new_str, on a file that holds
\* old_str exactly once, changes neither the file nor any history.
C16_SameStringNoOp ==
    [][(/\ FileCalled /\ fcall'.op = "replace" /\ fcall'.old = fcall'.new
        /\ ValidatePath(fcall'.path).ok
        /\ fs[Accessed(fcall'.path)].kind = "file"
        /\ StrCount(ReadText(fs[Accessed(fcall'.path)].data), fcall'.old) = 1) =>
          /\ fcall'.err = ""
          /\ fs' = fs /\ file_history' = file_history]_vars

\* this step is a replace on a file that holds old_str more than once
ReplaceOfMany ==
    /\ FileCalled /\ fcall'.op = "replace" /\ ValidatePath(fcall'.path).ok
    /\ fs[Accessed(fcall'.path)].kind = "file"
    /\ StrCount(ReadText(fs[Accessed(fcall'.path)].data), fcall'.old) > 1

\* C17: a replace on a file that holds old_str more than once fails with the
\* ambiguity error, nothing changed, when all_occurrences is false; it
\* succeeds and replaces every occurrence when it is true, and an undo that
\* follows gives the file the content it had before that replace.
C17_ManyOccurrences ==
    [][/\ ReplaceOfMany =>
             LET n == Accessed(fcall'.path)
                 text == ReadText(fs[n].data) IN
             IF fcall'.all
             THEN /\ fcall'.err = ""
                  /\ ReadText(fs'[n].data) = StrReplace(text, fcall'.old, fcall'.new, -1)
             ELSE /\ fcall'.err = "Ambiguous"
                  /\ fs' = fs /\ file_history' = file_history
       /\ (/\ UndoAfterEdit /\ fcall.op = "replace" /\ fcall.all
           /\ StrCount(ReadText(fcall.before), fcall.old) > 1) =>
             /\ fcall'.err = ""
             /\ fs'[Accessed(fcall.path)].data = fcall.before]_vars

\* every line of the bytes d ends in "\r\n", and there is such a line
EndsCRLF(d) ==
    /\ \A i \in 1..Len(d) : d[i] = LF => (i > 1 /\ d[i - 1] = CR)
    /\ \A i \in 1..Len(d) : d[i] = CR => (i < Len(d) /\ d[i + 1] = LF)

\* C18: on a file whose lines end in CRLF, a replace whose old_str is written
\* with LF line endings matches, and every line ending of the file it
\* writes is CRLF, those that came with new_str included.
C18_KeepsCRLF ==
    [][(/\ FileCalled /\ fcall'.op = "replace" /\ ValidatePath(fcall'.path).ok
        /\ fs[Accessed(fcall'.path)].kind = "file"
        /\ LET d == fs[Accessed(fcall'.path)].data IN
           /\ Contains(d, <<CR, LF>>) /\ EndsCRLF(d)
           /\ Contains(fcall'.old, <<LF>>) /\ ~Contains(fcall'.old, <<CR>>)
           /\ StrCount(StrReplace(d, <<CR, LF>>, <<LF>>, -1), fcall'.old) = 1) =>
          /\ fcall'.err = ""
          /\ EndsCRLF(fs'[Accessed(fcall'.path)].data)]_vars

\* what C19 says of every command but move
PushersOnly ==
    LET c == fcall' IN
    /\ c.op \in Edits =>
          IF c.err # "" THEN file_history' = file_history
          ELSE LET k == KeyOf(c.path) IN
               /\ \A j \in Keys \ {k} : file_history'[j] = file_history[j]
               /\ HLen(file_history', k) <= HLen(file_history, k) + 1
               /\ file_history'[k].snaps # <<>>
    /\ c.op \in {"read", "write", "append", "create", "exists", "list", "mkdir", "rmdir",
                 "copy", "view", "grep"} => file_history' = file_history
    /\ c.op \in {"undo", "delete"} =>
          \A k \in Keys : HLen(file_history', k) <= HLen(file_history, k)

\* C19 (as amended): only replace, insert and delete_lines push a snapshot,
\* each on the history of its own path; the commands that read, write,
\* create, copy and list leave every history as it is; undo and delete make
\* no history longer; move adds no snapshot: it leaves the histories as they
\* are or gives the destination path the history of the source path, which
\* then has none.
C19_WhoPushes ==
    [][FileCalled =>
          /\ PushersOnly
          /\ fcall'.op = "move" =>
                \/ file_history' = file_history
                \/ LET from == KeyOf(fcall'.path)
                       to   == KeyOf(fcall'.dst) IN
                   /\ fcall'.err = "" /\ file_history[from].has
                   /\ file_history' = [file_history EXCEPT ![to] = file_history[from],
                                                           ![from] = NoHistory]]_vars

\* C19 (as stated): the same, and move makes no path's history longer
C19_NeverLonger ==
    [][FileCalled =>
          /\ PushersOnly
          /\ fcall'.op = "move" =>
                \A k \in Keys : HLen(file_history', k) <= HLen(file_history, k)]_vars

\* C19, its case: a move has given its destination the snapshot of an edit
\* of its source
C19_MovedHistory ==
    /\ fcall.op = "move" /\ fcall.err = ""
    /\ ~file_history[KeyOf(fcall.path)].has
    /\ HLen(file_history, KeyOf(fcall.dst)) > 0
    /\ fs[Accessed(fcall.dst)].kind = "file" /\ fs[Accessed(fcall.path)].kind = "none"

\* C20: after a successful delete, of a file or of a directory with
\* recursive=true, no path whose file the delete removed has a snapshot left
\* (so that undo on a file created there later fails with no-history).
C20_DeleteClears ==
    [][(FileCalled /\ fcall'.op = "delete" /\ fcall'.err = "") =>
          \A k \in Keys :
              (fs[Node(k)].kind # "none" /\ fs'[Node(k)].kind = "none") =>
                  file_history'[k].snaps = <<>>]_vars

\* C21: after a successful move(src, dst), src and dst being two paths, the
\* history of dst is the history src had before the move (none if src had
\* none, whatever dst had), src has none, and no other history has changed.
C21_MoveTransfers ==
    [][(/\ FileCalled /\ fcall'.op = "move" /\ fcall'.err = ""
        /\ KeyOf(fcall'.path) # KeyOf(fcall'.dst)) =>
          LET from == KeyOf(fcall'.path)
              to   == KeyOf(fcall'.dst) IN
          /\ file_history'[to].snaps = file_history[from].snaps
          /\ file_history'[from].snaps = <<>>
          /\ \A k \in Keys \ {from, to} : file_history'[k] = file_history[k]]_vars

\* ------------------------------------------- claims, stateless functions
\* the text of a field, None having none
Text(f) == f.text

\* C22: each text field of a + b is a's text followed by b's text; a + b
\* raises exactly when both carry an image; + is associative; ToolResult()
\* is a left and a right identity: a + ToolResult() = a = ToolResult() + a.
C22_Monoid ==
    calc.fn = "add" =>
        /\ calc.ab.raised = (Truthy(calc.a.base64_image) /\ Truthy(calc.b.base64_image))
        /\ ~calc.ab.raised =>
              /\ Text(calc.ab.output) = Text(calc.a.output) \o Text(calc.b.output)
              /\ Text(calc.ab.error) = Text(calc.a.error) \o Text(calc.b.error)
              /\ Text(calc.ab.system) = Text(calc.a.system) \o Text(calc.b.system)
        /\ calc.ab_c = calc.a_bc
        /\ calc.e_a = calc.a
        /\ calc.a_e = calc.a

\* ------------------------------------------------ claims, stream_command
\* the text the shell has written to stdout before the first sentinel
StdoutText == Decode(Before(strm.wrote))

\* C23: the chunks sent, in order, are a prefix of the text the shell wrote to
\* stdout before the first sentinel, and the whole of it when the stream has
\* ended on the sentinel, however the bytes were split across the reads; no
\* part of the sentinel is among them.
C23_ChunksAreOutput ==
    /\ StartsWith(IF Contains(strm.wrote, SentinelBytes) THEN StdoutText
                  ELSE Decode(strm.wrote), strm.out)
    /\ (strm.pc = "ended" /\ strm.conn) => strm.out = StdoutText

\* C24: a stream ends once the sentinel is on stdout, the client has gone,
\* the read of stdout has failed or stdout is at end-of-file; and when it
\* has ended both reader tasks are cancelled or over and busy is false.
C24_StreamEnds ==
    /\ [](strm.pc = "ended" => (~strm.busy /\ strm.rd # "run" /\ strm.erd # "run"))
    /\ (/\ strm.pc = "stream"
        /\ \/ Contains(strm.wrote, SentinelBytes)
           \/ ~strm.conn
           \/ strm.rd = "failed"
           \/ strm.eof) ~> (strm.pc = "ended")

\* ------------------------------------------------ claims, command length
\* C25: no command of more than MAX_COMMAND_LENGTH bytes is written to the
\* stdin of a session, by run() or by stream_command; a /bash request that is
\* refused for its length leaves the busy flag, the last command and the
\* buffers of its session as they were.
C25_NoLongWrite ==
    [][/\ \A t \in Tasks : task'[t].writes > task[t].writes => ~TooLong(task'[t].cmd)
       /\ (ws.pc = "idle" /\ ws'.pc = "stream") => ~TooLong(obj'[ws.o].last)
       /\ \A t \in Tasks :
             (task[t].pc # "done" /\ task'[t].pc = "done" /\ task'[t].res.on = "length") =>
                 LET o == task'[t].o IN
                 /\ task'[t].res.err = "ErrorExecuting"
                 /\ obj'[o].busy = obj[o].busy /\ obj'[o].last = obj[o].last
                 /\ obj'[o].buf = obj[o].buf /\ obj'[o].ebuf = obj[o].ebuf]_vars

\* -------------------------------------------- claims, /bash/ws lifecycle
\* C26: the connection registers its session under the lock, started, at the
\* id max(keys) + 1, an id that is no key at that moment; and once the client
\* has disconnected, the connection's session gets stopped and the map gets
\* to hold it no more, whatever the /bash requests beside it do.
C26_WsLifecycle ==
    /\ [][(ws.pc = "starting" /\ ws'.pc = "idle") =>
             /\ lock = WsId
             /\ sessions[ws.sid] = NoObj /\ ws.sid = WsNextId
             /\ sessions'[ws.sid] = ws.o /\ obj'[ws.o].started]_vars
    /\ (ws.pc \in {"idle", "stream"} /\ ~ws.conn) ~>
           (ws.pc = "over" /\ sessions[ws.sid] # ws.o /\ obj[ws.o].proc # "run")

\* ------------------------------------------------------ claims, the ids
\* C27: every key of the session map is an integer >= 1, also a key that
\* comes from the `session` of a request, and one id has one session object.
C27_PositiveIds ==
    /\ sessions \in [Ids -> Objs \cup {NoObj}]
    /\ \A i \in Ids : sessions[i] # NoObj => i >= 1

\* ------------------------------------------------- claims, the listing
FirstExcluded(e) == e.rel[1] \in EXCLUDED_PATTERNS \/ StartsWith(e.rel[1], <<".">>)

Listed == {calc.items[i] : i \in 1..Len(calc.items)}

\* C28: the listing holds no entry whose first segment relative to the
\* workspace is an excluded name or starts with ".", holds every other entry
\* of the scan (an entry below a root item that is not excluded among them,
\* whatever its own name), is sorted by relative path, and total_items is the
\* number of the entries returned.
C28_Listing ==
    calc.fn = "list" =>
        /\ \A e \in Listed : ~FirstExcluded(e)
        /\ \A e \in Scan(calc.T, calc.scanner) : ~FirstExcluded(e) => e \in Listed
        /\ \A i \in 1..(Len(calc.items) - 1) :
              StrLe(RelStr(calc.items[i].rel), RelStr(calc.items[i + 1].rel))
        /\ calc.total_items = Len(calc.items)

\* C29: the exclusion predicate answers the same for a file of the workspace
\* given by its absolute path and given by its path relative to the workspace.
C29_SameByEitherForm ==
    calc.fn = "excluded" => calc.by_abs = calc.by_rel

\* ------------------------------------------- claims, no command given
\* coroutine t answers an execute request that has no command for a session
\* that was in the map
NoCmdExisting(t) ==
    /\ task[t].pc = "idle" /\ task'[t].pc = "done"
    /\ task'[t].kind = "execute" /\ task'[t].cmd = NoCmd

\* coroutine t leaves the start() of the session it created for an execute
\* request that has no command
NoCmdCreated(t) ==
    /\ task[t].pc = "starting" /\ task[t].cmd = NoCmd
    /\ task'[t].pc # "starting"

NoCmdError(t) ==
    /\ task'[t].res.err = "NoCommand" /\ task'[t].res.sys = ""
    /\ task'[t].sid = (IF task'[t].sess = NoId THEN 1 ELSE task'[t].sess)

NoCmdNote(t) ==
    /\ task'[t].pc = "done"
    /\ task'[t].res.sys = "Created" /\ task'[t].res.err = ""
    /\ sessions'[task[t].sid] = task[t].o
    /\ obj'[task[t].o].started /\ obj'[task[t].o].proc = "run"
    /\ ~obj'[task[t].o].busy

\* C30: a bash request with no command and no flag: when its target session
\* (the id given, 1 when none is) was not in the map, the session is created,
\* started and idle and the answer is the system note of the creation; when
\* it was in the map, the answer is the error "no command provided" and the
\* map and the state of that session are as they were.
C30_NoCommand ==
    [][\A t \in Tasks :
          /\ NoCmdExisting(t) =>
                /\ NoCmdError(t)
                /\ sessions' = sessions
                /\ obj'[task'[t].o] = obj[task'[t].o]
          /\ NoCmdCreated(t) => NoCmdNote(t)]_vars

\* --------------------------------------- claims, a session that timed out
\* no coroutine is inside run() on the object o
NoRunner(o) == \A t \in Tasks : task[t].o = o => task[t].pc \in {"idle", "done"}

\* run() left the session o busy and the sentinel of its command has since
\* reached stdout
TimedOutDone(o) == obj[o].busy /\ HasSentinel(obj[o].buf) /\ NoRunner(o)

\* coroutine t accepts and answers a request that probes the session at id i
ProbesAt(t, i) ==
    /\ task[t].pc = "idle" /\ task'[t].pc # "idle"
    /\ \/ task'[t].kind = "list"
       \/ task'[t].kind = "check" /\ task'[t].sid = i
       \/ task'[t].kind = "execute" /\ task'[t].sess = i

\* the request coroutine t accepted wrote its command to the session's stdin
RanIt(t) ==
    /\ task'[t].writes = 1
    /\ task'[t].res.sys \notin {"SessionBusy", "RunBusy"}

\* a probe found the sentinel of the session o and marked it idle
Cleared(o) == ~obj[o].busy /\ HasSentinel(obj[o].pout) /\ NoRunner(o)

\* C31: once the command of a session that run() left busy has finished and
\* its sentinel is in stdout, the next request that probes the session
\* (check_session, list_sessions, an execute addressed to it) marks it idle,
\* an execute among them runs its command and is not answered Busy, and so
\* does an execute addressed to the session after the probe: no probe leaves
\* such a session busy.
C31_TimedOutReusable ==
    [][\A t \in Tasks, i \in Ids :
          /\ (sessions[i] # NoObj /\ TimedOutDone(sessions[i]) /\ ProbesAt(t, i)) =>
                IF task'[t].kind = "execute" /\ task'[t].cmd # NoCmd
                THEN RanIt(t)
                ELSE ~obj'[sessions[i]].busy
          /\ (sessions[i] # NoObj /\ Cleared(sessions[i]) /\ ProbesAt(t, i)
              /\ task'[t].kind = "execute" /\ task'[t].cmd # NoCmd) => RanIt(t)]_vars

\* a probe has marked idle a session that run() had left busy
C31_ProbeCleared == \E i \in Ids : sessions[i] # NoObj /\ Cleared(sessions[i])

\* ------------------------------------------------ claims, check_session
\* coroutine t accepts and answers check_session for the id i
ChecksAt(t, i) ==
    /\ task[t].pc = "idle" /\ task'[t].pc = "done"
    /\ task'[t].kind = "check" /\ task'[t].sid = i

\* run() of coroutine u waits in readuntil for the sentinel of the command it
\* wrote to the session o: stdout's buffer holds every byte the command has
\* written, and the command has not finished
StillRunning(u, o) ==
    /\ task[u].pc = "wait" /\ task[u].o = o
    /\ obj[o].busy /\ ~HasSentinel(obj[o].buf)

\* C32: check_session on a session whose command is still running returns
\* the bytes the command has written to stdout since it was submitted, each
\* once and in order, and the filtered stderr accumulated so far.
C32_SnapshotIsOutput ==
    [][\A t, u \in Tasks, i \in Ids :
          (sessions[i] # NoObj /\ StillRunning(u, sessions[i]) /\ ChecksAt(t, i)) =>
              /\ task'[t].res.sys = "StillRunning"
              /\ task'[t].res.out = obj[sessions[i]].buf
              /\ task'[t].res.err = ErrOf(obj[sessions[i]].ebuf)]_vars

\* ------------------------------------- claims, stream on a busy session
\* the connection's session is occupied by a command that has not finished
WsOccupied ==
    /\ ws.pc = "idle" /\ ws.o # NoObj
    /\ obj[ws.o].busy /\ obj[ws.o].proc # "none" /\ ~HasSentinel(obj[ws.o].buf)

\* a text frame is received and stream_command is called with it
WsFrame == ws.pc = "idle" /\ ws'.n = ws.n + 1

\* C33: stream_command on a busy session raises the session-busy error with
\* nothing written to the subprocess; the busy flag stays set, the last
\* command and the buffers of the session (the partial output and error, the
\* stdout and stderr of the subprocess) are as they were, and the handler is
\* back in its loop, waiting for the next frame.
C33_BusyStreamTouchesNothing ==
    [][(WsOccupied /\ WsFrame) =>
          /\ ws'.pc = "idle" /\ ws'.gen = ws.gen /\ ws'.rd = ws.rd
          /\ obj'[ws.o].busy
          /\ obj'[ws.o].last = obj[ws.o].last
          /\ obj'[ws.o].wr = obj[ws.o].wr /\ obj'[ws.o].inq = obj[ws.o].inq
          /\ obj'[ws.o].buf = obj[ws.o].buf /\ obj'[ws.o].ebuf = obj[ws.o].ebuf
          /\ obj'[ws.o].pout = obj[ws.o].pout /\ obj'[ws.o].perr = obj[ws.o].perr
          /\ sessions' = sessions]_vars

\* ---------------------------------- claims, the connection's own session
\* the connection is open and its session registered
WsOpen == ws.pc \in {"idle", "stream"} /\ ws.conn

\* coroutine t accepts an execute with a command and no session id
AutoRouted(t) ==
    /\ task[t].pc = "idle" /\ task'[t].pc # "idle"
    /\ task'[t].kind = "execute" /\ task'[t].cmd # NoCmd /\ task'[t].sess = NoId

\* C34: while a websocket connection is open, no command of a POST /bash
\* request that names no session is written to the stdin of the connection's
\* session.
C34_DedicatedSession ==
    [][\A t \in Tasks :
          (WsOpen /\ AutoRouted(t)) => ~(task'[t].o = ws.o /\ task'[t].writes = 1)]_vars

\* ------------------------------------------------- claims, the dispatch
\* the first field of the request that is set, in the order list_sessions,
\* check_session, restart; "execute" when none is
FirstSet(req) ==
    CASE req.list_sessions -> "list"
      [] ~req.list_sessions /\ req.check_session # NoId -> "check"
      [] ~req.list_sessions /\ req.check_session = NoId /\ req.restart -> "restart"
      [] OTHER -> "execute"

\* coroutine t accepts and answers list_sessions or check_session
Inspects(t) ==
    /\ task[t].pc = "idle" /\ task'[t].pc # "idle"
    /\ task'[t].kind \in {"list", "check"}

\* the session object o is as it was, or its sentinel is in stdout and its
\* busy flag has been cleared (wr counts the writes since a sentinel was seen)
OnlyBusyCleared(o) ==
    \/ obj'[o] = obj[o]
    \/ /\ HasSentinel(obj[o].buf)
       /\ obj'[o] = [obj[o] EXCEPT !.busy = FALSE, !.wr = 0]

\* C35: a request takes the branch of the first of list_sessions,
\* check_session, restart that is set, execute when none is; list_sessions
\* and check_session leave the map as it is, write to no subprocess and
\* change no session but to clear the busy flag of one whose sentinel is in
\* stdout; check_session of an id that is not in the map answers not found
\* and constructs nothing.
C35_DispatchAndFrame ==
    [][\A t \in Tasks :
          /\ \A req \in Requests :
                (task[t].pc = "idle" /\ BashAction(t, req)) => task'[t].kind = FirstSet(req)
          /\ Inspects(t) =>
                /\ sessions' = sessions /\ nobj' = nobj
                /\ \A o \in Objs : OnlyBusyCleared(o)
          /\ (Inspects(t) /\ task'[t].kind = "check" /\ sessions[task'[t].sid] = NoObj) =>
                /\ task'[t].res.err = "NotFound"
                /\ obj' = obj]_vars

\* ------------------------------------------------- claims, the mutex
\* coroutine t is inside run(): it waits for the sentinel or for the timeout
InRun(t) == task[t].pc \in {"wait", "chunks", "cwait"}

\* the holder of the manager's lock is suspended in start()
HolderInStart ==
    /\ \A t \in Tasks : lock = t => task[t].pc \in {"starting", "rstarting", "astarting"}
    /\ lock = WsId => ws.pc = "starting"

\* C36: the manager's lock is never held by a coroutine that waits for a
\* sentinel or a timeout: its holder is in start(), and the lock is free again
\* whatever commands run or have timed out, so that the requests on other
\* sessions and a websocket accept get it.
C36_LockNotHeldInRun ==
    /\ [](HolderInStart /\ \A t \in Tasks : InRun(t) => lock # t)
    /\ \A t \in Tasks : (InRun(t) /\ lock # 0) ~> (lock = 0)

\* a request holds the lock in start() while the command of another waits for
\* its sentinel
C36_HeldBesideRun == \E t, u \in Tasks : InRun(t) /\ lock = u

\* ------------------------------------------ claims, no orphan subprocess
\* stop() has been called on the object o since it was started, or its shell
\* has exited: its subprocess is not left running
Stopped(ob) == ob.started => ob.proc # "run"

\* C37: a session object that is replaced in the map or removed from it has
\* had stop() called on it, and every started session whose subprocess has
\* not been terminated is the value of a key of the map.
C37_NoOrphan ==
    [][/\ \A i \in Ids :
             (sessions[i] # NoObj /\ sessions'[i] # sessions[i]) =>
                 Stopped(obj'[sessions[i]])
       /\ \A o \in Objs :
             (obj'[o].started /\ obj'[o].proc = "run") => \E i \in Ids : sessions'[i] = o]_vars

\* ------------------------------------------------- claims, undo depth
Min(a, b) == IF a < b THEN a ELSE b

\* an undo is called on the path after k edits made in a row from an empty
\* history and fcall.undone successful undos
UndoAfterRun ==
    /\ FileCalled /\ fcall'.op = "undo" /\ fcall'.path = fcall.path
    /\ fcall.run # <<>>
    /\ fcall.op = "undo" => fcall.err = ""

\* C38: after k >= 1 successful edits of a file made in a row, exactly
\* min(k, 2) undos in a row succeed, the i-th restoring the content the file
\* had before the (k - i + 1)-th edit; the next undo fails for lack of
\* history and leaves the file as it is.
C38_UndoDepthTwo ==
    [][UndoAfterRun =>
          LET k == Len(fcall.run)
              i == fcall.undone + 1
              n == Accessed(fcall.path) IN
          IF i <= Min(k, 2)
          THEN fcall'.err = "" /\ fs'[n].data = fcall.run[k - i + 1]
          ELSE fcall'.err = "NoHistory" /\ fs' = fs]_vars

\* ------------------------------------------------ claims, failed edits
\* C39: a replace that fails because old_str is not found or is ambiguous,
\* an insert whose line is not in 1..nlines+1 and an undo that fails for lack
\* of history leave the content of every file and the undo history of every
\* path as they were.
C39_FailedEditChangesNothing ==
    [][(/\ FileCalled
        /\ \/ fcall'.op = "replace" /\ fcall'.err \in {"NotFound", "Ambiguous"}
           \/ fcall'.op = "insert" /\ fcall'.err = "OutOfRange"
           \/ fcall'.op = "undo" /\ fcall'.err = "NoHistory") =>
          /\ fs' = fs
          /\ file_history' = file_history]_vars

\* an edit has failed on a file that has been edited before
C39_FailedAfterEdits ==
    /\ \/ fcall.op = "replace" /\ fcall.err \in {"NotFound", "Ambiguous"}
       \/ fcall.op = "insert" /\ fcall.err = "OutOfRange"
    /\ HLen(file_history, KeyOf(fcall.path)) > 0

====
